---- MODULE Spec2Model ----
(***************************************************************************)
(* Globe Map Quiz: the country boundary ingestion and picking engine       *)
(* (CountryRenderer, src/unnamed/part_003 lines 1-389) together with the   *)
(* part of the application state it publishes to (StateManager,            *)
(* src/src/core/state.js).                                                 *)
(*                                                                         *)
(* JavaScript values that the code treats dynamically (feature.id,         *)
(* properties.name) are modelled as tagged records, so that `||`, string   *)
(* to number coercion and Map key equality (SameValueZero) behave as they  *)
(* do in the program.                                                      *)
(***************************************************************************)
EXTENDS Integers, Sequences, FiniteSets, TLC

(***************************************************************************)
(* Bounds of the model.                                                    *)
(***************************************************************************)
\* the raster is size x size pixels (2048 in the program, part_003:202)
size == 3
\* uv coordinates are the multiples of 1/UDen in [0, 1]
UDen == 2
\* features per input batch
MaxFeatures == 2
\* the colour codec is exercised on 1..MaxSampleId and around the byte edges
MaxSampleId == 120
\* vertices per ring in the runs of the geometric analysis
MaxRingLen == 4

(***************************************************************************)
(* JavaScript values: undefined, numbers (naturals here) and strings       *)
(* (sequences of one-character strings).                                   *)
(***************************************************************************)
Undef == [t |-> "undefined", n |-> 0, s |-> <<>>]
Num(n) == [t |-> "number", n |-> n, s |-> <<>>]
Str(s) == [t |-> "string", n |-> 0, s |-> s]

\* ToBoolean: undefined, 0 and "" are falsy
Truthy(v) ==
    CASE v.t = "undefined" -> FALSE
      [] v.t = "number" -> v.n # 0
      [] v.t = "string" -> v.s # <<>>

\* a || b
OrElse(a, b) == IF Truthy(a) THEN a ELSE b

DigitChars == <<"0", "1", "2", "3", "4", "5", "6", "7", "8", "9">>

DigitVal(c) == (CHOOSE i \in 1..10 : DigitChars[i] = c) - 1

RECURSIVE ParseDigits(_, _)
ParseDigits(s, acc) ==
    IF s = <<>> THEN acc ELSE ParseDigits(Tail(s), acc * 10 + DigitVal(Head(s)))

\* ToNumber on the values above (strings here are decimal digit strings)
ToNumber(v) ==
    CASE v.t = "undefined" -> 0
      [] v.t = "number" -> v.n
      [] v.t = "string" -> ParseDigits(v.s, 0)

RECURSIVE DecStr(_)
\* String(n) for a natural n
DecStr(n) ==
    IF n < 10 THEN <<DigitChars[n + 1]>>
    ELSE DecStr(n \div 10) \o <<DigitChars[(n % 10) + 1]>>

\* the letters that occur in the names of the model
UpperChars == <<"A", "B", "C", "N", "O", "R", "T", "U", "Y">>
LowerChars == <<"a", "b", "c", "n", "o", "r", "t", "u", "y">>

LowerChar(c) ==
    IF \E i \in 1..Len(UpperChars) : UpperChars[i] = c
    THEN LowerChars[CHOOSE i \in 1..Len(UpperChars) : UpperChars[i] = c]
    ELSE c

UpperChar(c) ==
    IF \E i \in 1..Len(LowerChars) : LowerChars[i] = c
    THEN UpperChars[CHOOSE i \in 1..Len(LowerChars) : LowerChars[i] = c]
    ELSE c

\* String.prototype.toLowerCase
ToLowerCase(s) == [i \in 1..Len(s) |-> LowerChar(s[i])]

(***************************************************************************)
(* 32-bit integer operators of JavaScript on non-negative operands.        *)
(***************************************************************************)
Pow2(k) == 2 ^ k

\* ToInt32: the identity on 0 .. 2^31 - 1, where all numbers of the model lie
ToInt32(n) == n

RECURSIVE BitAnd(_, _)
BitAnd(a, b) ==
    IF a = 0 \/ b = 0 THEN 0
    ELSE 2 * BitAnd(a \div 2, b \div 2) + (IF a % 2 = 1 /\ b % 2 = 1 THEN 1 ELSE 0)

RECURSIVE BitOr(_, _)
BitOr(a, b) ==
    IF a = 0 THEN b
    ELSE IF b = 0 THEN a
    ELSE 2 * BitOr(a \div 2, b \div 2) + (IF a % 2 = 1 \/ b % 2 = 1 THEN 1 ELSE 0)

Shr(a, k) == a \div Pow2(k)

\* a << k for a < 256 and k <= 16: no bit is shifted out
Shl(a, k) == a * Pow2(k)

(***************************************************************************)
(* Colour codec (part_003:228-240).  A colour is <<r, g, b>>.              *)
(***************************************************************************)
IdToColorMutG(id) ==
    LET n == ToInt32(ToNumber(id))
    IN  <<Shr(BitAnd(n, 16711680), 16), Shr(BitAnd(n, 65280), 16), BitAnd(n, 255)>>

\* _idToColor: the rgb(r,g,b) fill style, as the pixel value it paints
IdToColor(id) ==
    LET n == ToInt32(ToNumber(id))
    IN  <<Shr(BitAnd(n, 16711680), 16), Shr(BitAnd(n, 65280), 8), BitAnd(n, 255)>>

\* _colorToId
ColorToId(r, g, b) == BitOr(BitOr(Shl(r, 16), Shl(g, 8)), b)

Black == <<0, 0, 0>>

(***************************************************************************)
(* Geometry.  A point is <<lon, lat>> in whole degrees, a ring a sequence  *)
(* of points, a polygon a sequence of rings (ring 1 is the outer ring).    *)
(* A geometry keeps its declared type, and `polys`, its coordinates as a   *)
(* sequence of polygons; `nest` tells how deep the input nested them:      *)
(* "Polygon" (coordinates = polys[1]) or "MultiPolygon" (coordinates =     *)
(* polys).  The geometries considered are nested as their type says, or    *)
(* one level too shallow (type MultiPolygon, nest Polygon), or have no     *)
(* coordinates member at all (nest "absent", coordinates undefined).       *)
(***************************************************************************)
RingA == << <<-180, 0>>, <<-180, 90>>, <<0, 90>>, <<0, 0>> >>
RingB == << <<0, 0>>, <<0, 90>>, <<180, 90>>, <<180, 0>> >>

GeomA == [type |-> "Polygon", nest |-> "Polygon", polys |-> << <<RingA>> >>]
GeomB == [type |-> "MultiPolygon", nest |-> "MultiPolygon", polys |-> << <<RingB>> >>]
\* a MultiPolygon whose coordinates are nested like a Polygon's
GeomShallow == [type |-> "MultiPolygon", nest |-> "Polygon", polys |-> << <<RingB>> >>]
\* geometry: null
GeomNull == [type |-> "null", nest |-> "null", polys |-> <<>>]

\* a ring inside RingA, and a ring outside it
HoleRing == << <<-180, 30>>, <<-180, 90>>, <<-60, 90>>, <<-60, 30>> >>
StrayRing == << <<0, -90>>, <<0, 0>>, <<180, 0>>, <<180, -90>> >>

\* a polygon with a hole, a multipolygon whose second polygon has a hole, a
\* polygon whose second ring lies outside its outer ring, and the polygon
\* that fills the hole
GeomHoleA == [type |-> "Polygon", nest |-> "Polygon", polys |-> << <<RingA, HoleRing>> >>]
GeomHoleMulti ==
    [type |-> "MultiPolygon", nest |-> "MultiPolygon",
     polys |-> << <<RingB>>, <<RingA, HoleRing>> >>]
GeomStray == [type |-> "Polygon", nest |-> "Polygon", polys |-> << <<RingA, StrayRing>> >>]
GeomEnclave == [type |-> "Polygon", nest |-> "Polygon", polys |-> << <<HoleRing>> >>]

\* {type: 'Polygon', coordinates: []}: a polygon without rings
GeomEmpty == [type |-> "Polygon", nest |-> "Polygon", polys |-> << <<>> >>]
\* {type: 'Polygon', coordinates: [[]]}: a polygon of one ring without vertices
GeomEmptyRing == [type |-> "Polygon", nest |-> "Polygon", polys |-> << << <<>> >> >>]
\* {type: 'MultiPolygon', coordinates: []}
GeomEmptyMulti == [type |-> "MultiPolygon", nest |-> "MultiPolygon", polys |-> <<>>]
\* {type: 'Polygon'}: no coordinates member
GeomNoCoords == [type |-> "Polygon", nest |-> "absent", polys |-> <<>>]

RECURSIVE Flatten(_)
Flatten(ss) == IF ss = <<>> THEN <<>> ELSE Head(ss) \o Flatten(Tail(ss))

\* every ring of every polygon, in order
AllRings(g) == Flatten(g.polys)

\* every vertex, in the order processCoords visits them
AllPoints(g) == Flatten(AllRings(g))

RECURSIVE SumLon(_)
SumLon(pts) == IF pts = <<>> THEN 0 ELSE Head(pts)[1] + SumLon(Tail(pts))

RECURSIVE SumLat(_)
SumLat(pts) == IF pts = <<>> THEN 0 ELSE Head(pts)[2] + SumLat(Tail(pts))

Min2(a, b) == IF a < b THEN a ELSE b
Max2(a, b) == IF a > b THEN a ELSE b

RECURSIVE FoldBounds(_, _)
FoldBounds(pts, acc) ==
    IF pts = <<>> THEN acc
    ELSE FoldBounds(Tail(pts),
            [minLat |-> Min2(acc.minLat, Head(pts)[2]),
             maxLat |-> Max2(acc.maxLat, Head(pts)[2]),
             minLon |-> Min2(acc.minLon, Head(pts)[1]),
             maxLon |-> Max2(acc.maxLon, Head(pts)[1])])

\* reading geometry.coordinates of a null geometry is a TypeError
AnalysisThrows(g) == g.type = "null"

CalculateCentroidSwapped(g) ==
    LET pts == AllPoints(g)
        count == Len(pts)
    IN  IF count > 0
        THEN [lat |-> <<SumLon(pts), count>>, lon |-> <<SumLat(pts), count>>]
        ELSE [lat |-> <<0, 1>>, lon |-> <<0, 1>>]

\* _calculateCentroid; a quotient total / count is kept as <<total, count>>
CalculateCentroid(g) ==
    LET pts == AllPoints(g)
        count == Len(pts)
    IN  IF count > 0
        THEN [lat |-> <<SumLat(pts), count>>, lon |-> <<SumLon(pts), count>>]
        ELSE [lat |-> <<0, 1>>, lon |-> <<0, 1>>]

RECURSIVE FoldBoundsSwapped(_, _)
FoldBoundsSwapped(pts, acc) ==
    IF pts = <<>> THEN acc
    ELSE FoldBoundsSwapped(Tail(pts),
            [minLat |-> Max2(acc.minLat, Head(pts)[2]),
             maxLat |-> Min2(acc.maxLat, Head(pts)[2]),
             minLon |-> Max2(acc.minLon, Head(pts)[1]),
             maxLon |-> Min2(acc.maxLon, Head(pts)[1])])

CalculateBoundsMinMaxSwapped(g) ==
    FoldBoundsSwapped(AllPoints(g),
               [minLat |-> 90, maxLat |-> -90, minLon |-> 180, maxLon |-> -180])

\* _calculateBounds
CalculateBounds(g) ==
    FoldBounds(AllPoints(g),
               [minLat |-> 90, maxLat |-> -90, minLon |-> 180, maxLon |-> -180])

(***************************************************************************)
(* Border lines (part_003:153-182).                                        *)
(***************************************************************************)
\* CONFIG.globe.radius
GlobeRadius == 1

\* processRing destructures every element of a ring as [lon, lat]; with the
\* coordinates one level too shallow the elements are numbers: a TypeError.
\* Without a coordinates member, processPolygon(undefined) and
\* undefined.forEach are TypeErrors too.
GeometryToLinesThrows(g) ==
    \/ /\ g.type = "MultiPolygon"
       /\ g.nest = "Polygon"
       /\ AllPoints(g) # <<>>
    \/ /\ g.type \in {"Polygon", "MultiPolygon"}
       /\ g.nest = "absent"

\* the radius the border points are projected at, CONFIG.globe.radius * 1.001,
\* in thousandths
BorderRadiusMilli == GlobeRadius * 1001

\* new THREE.Line(geometry) over the points of a ring: `points` are the ring's
\* vertices in order, each standing for its projection at radiusMilli / 1000;
\* userData is the empty object of a new Object3D (<<>>), nothing is put in it
NewLine(ring) == [points |-> ring, radiusMilli |-> BorderRadiusMilli, userData |-> <<>>]

RECURSIVE RingsToLines(_)
RingsToLines(rings) ==
    IF rings = <<>> THEN <<>>
    ELSE (IF Len(Head(rings)) > 1 THEN <<NewLine(Head(rings))>> ELSE <<>>)
         \o RingsToLines(Tail(rings))

\* _geometryToLines: one line per ring with more than one point
GeometryToLines(g) ==
    IF g.type \in {"Polygon", "MultiPolygon"} THEN RingsToLines(AllRings(g)) ELSE <<>>

(***************************************************************************)
(* The lookup raster (part_003:201-274).  A canvas is a function from      *)
(* pixels <<x, y>> to colours.  Vertex and pixel-centre coordinates are    *)
(* kept in units of 1/720 pixel so that the projection stays in integers.  *)
(***************************************************************************)
Pixels == (0..(size - 1)) \X (0..(size - 1))

\* project: x = ((lon + 180) / 360) * size, y = ((90 - lat) / 180) * size
ProjectX(pt) == 2 * (pt[1] + 180) * size
ProjectY(pt) == 4 * (90 - pt[2]) * size

CentreX(p) == 720 * p[1] + 360
CentreY(p) == 720 * p[2] + 360

\* does the edge a-b cross the horizontal ray from (cx, cy) to the right?
EdgeCrosses(a, b, cx, cy) ==
    LET ax == ProjectX(a)
        ay == ProjectY(a)
        bx == ProjectX(b)
        by == ProjectY(b)
        dy == by - ay
    IN  /\ (ay > cy) # (by > cy)
        /\ IF dy > 0
           THEN (cx - ax) * dy < (cy - ay) * (bx - ax)
           ELSE (cx - ax) * dy > (cy - ay) * (bx - ax)

\* the point (cx, cy) is in the interior of the closed path through ring
PointInRing(ring, cx, cy) ==
    LET n == Len(ring)
        crossing == {i \in 1..n : EdgeCrosses(ring[i], ring[(i % n) + 1], cx, cy)}
    IN  Cardinality(crossing) % 2 = 1

\* the points at which the coverage of a pixel is sampled: a 2 x 2 grid
SubOffsets == {180, 540}

SubSamples(p) ==
    {<<720 * p[1] + dx, 720 * p[2] + dy>> : dx \in SubOffsets, dy \in SubOffsets}

SubCount == Cardinality(SubOffsets) * Cardinality(SubOffsets)

\* the part of pixel p that the closed path through ring covers, in
\* SubCount-ths: fill() anti-aliases the edge of a path
Coverage(ring, p) ==
    Cardinality({q \in SubSamples(p) : PointInRing(ring, q[1], q[2])})

\* source-over of an opaque colour at coverage cov onto the opaque pixel old,
\* each channel rounded to the nearest integer
Blend(color, old, cov) ==
    [c \in 1..3 |->
        (2 * (cov * color[c] + (SubCount - cov) * old[c]) + SubCount) \div (2 * SubCount)]

\* drawRing: beginPath ... closePath, fill with fillStyle = color
DrawRing(canvas, ring, color) ==
    [p \in Pixels |-> Blend(color, canvas[p], Coverage(ring, p))]

RECURSIVE FirstRings(_)
\* drawPolygon over each polygon: its ring 0, if it has any ring
FirstRings(polys) ==
    IF polys = <<>> THEN <<>>
    ELSE (IF Head(polys) = <<>> THEN <<>> ELSE <<Head(polys)[1]>>)
         \o FirstRings(Tail(polys))

\* the rings _drawGeometry fills: ring 0 of the polygon, or of each polygon
DrawnRings(g) ==
    IF g.type \in {"Polygon", "MultiPolygon"} THEN FirstRings(g.polys) ELSE <<>>

RECURSIVE DrawRings(_, _, _)
DrawRings(canvas, rings, color) ==
    IF rings = <<>> THEN canvas
    ELSE DrawRings(DrawRing(canvas, Head(rings), color), Tail(rings), color)

DrawGeometryEveryRing(canvas, g, color) ==
    DrawRings(canvas, IF g.type \in {"Polygon", "MultiPolygon"} THEN AllRings(g) ELSE <<>>,
              color)

\* _drawGeometry with fillStyle = color: one fill per outer ring
DrawGeometry(canvas, g, color) == DrawRings(canvas, DrawnRings(g), color)

RECURSIVE DrawCountries(_, _)
DrawCountries(canvas, countries) ==
    IF countries = <<>> THEN canvas
    ELSE DrawCountries(
            DrawGeometry(canvas, Head(countries).geometry, IdToColor(Head(countries).id)),
            Tail(countries))

\* _createLookupTexture: black, then every country in its colour
CreateLookupTexture(countries) ==
    DrawCountries([p \in Pixels |-> Black], countries)

\* getImageData(x, y, 1, 1): outside the canvas it reads transparent black
PixelAt(canvas, x, y) ==
    IF <<x, y>> \in Pixels THEN canvas[<<x, y>>] ELSE Black

(***************************************************************************)
(* Map (insertion ordered, keys compared by SameValueZero, which on the    *)
(* tagged values is equality: the number 7 and the string "7" differ).     *)
(***************************************************************************)
MapHas(m, k) == \E i \in 1..Len(m) : m[i].k = k

\* Map.prototype.get; the result is <<>> (undefined) or <<value>>
MapGet(m, k) ==
    IF MapHas(m, k) THEN <<m[CHOOSE i \in 1..Len(m) : m[i].k = k].v>> ELSE <<>>

\* Map.prototype.set
MapSet(m, k, v) ==
    IF MapHas(m, k)
    THEN [i \in 1..Len(m) |-> IF m[i].k = k THEN [k |-> k, v |-> v] ELSE m[i]]
    ELSE Append(m, [k |-> k, v |-> v])

(***************************************************************************)
(* Input.  A record of the feature collection is [id, name, geometry]: id  *)
(* is feature.id and name is feature.properties.name, as supplied.         *)
(***************************************************************************)
Id7 == Num(7)
Id1 == Num(1)
\* 2^24, the first id that does not fit the 24 colour bits
IdBig == Num(Pow2(24))
\* the id "7" as a string (world-atlas declares its ids as strings)
IdStr7 == Str(<<"7">>)

NameAb == Str(<<"A", "b">>)
NameaB == Str(<<"a", "B">>)

\* the empty string
NameEmpty == Str(<<>>)

DeclaredIds == {Undef, Id1, Id7, IdBig, IdStr7}
DeclaredNames == {Undef, NameEmpty, NameAb, NameaB}
Geometries == {GeomA, GeomB, GeomShallow, GeomNull}

Rec(id, name, g) == [id |-> id, name |-> name, geometry |-> g]

\* the records fed to load: every one-field variation of a plain record, and
\* a second plain record with another id, name and geometry
InputRecords ==
    {Rec(id, NameAb, GeomA) : id \in DeclaredIds}
    \cup {Rec(Id7, nm, GeomA) : nm \in DeclaredNames}
    \cup {Rec(Id7, NameAb, g) : g \in Geometries}
    \cup {Rec(Id1, NameaB, GeomB)}

InputBatches == UNION {[1..n -> InputRecords] : n \in 1..MaxFeatures}

QueryIds == {Id1, Id7}

UVs == (0..UDen) \X (0..UDen)

(***************************************************************************)
(* Feature processing and index build (part_003:37-54).                    *)
(***************************************************************************)
CountryPrefix == <<"C", "o", "u", "n", "t", "r", "y", " ">>

\* feature.id || index
FeatureId(feature, index) == OrElse(feature.id, Num(index))

FeatureNameNoIndex(feature, index) == OrElse(feature.name, Str(CountryPrefix))

\* props.name || `Country ${index}`
FeatureName(feature, index) ==
    OrElse(feature.name, Str(CountryPrefix \o DecStr(index)))

\* the callback of countries.features.map
ProcessFeature(feature, index) ==
    [id |-> FeatureId(feature, index),
     name |-> FeatureName(feature, index),
     geometry |-> feature.geometry,
     centroid |-> CalculateCentroid(feature.geometry),
     bounds |-> CalculateBounds(feature.geometry)]

ProcessFeatures(features) ==
    [i \in 1..Len(features) |-> ProcessFeature(features[i], i - 1)]

ProcessThrows(features) ==
    \E i \in 1..Len(features) : AnalysisThrows(features[i].geometry)

RECURSIVE BuildById(_, _)
\* byId.set(country.id, country) for each country
BuildById(countries, m) ==
    IF countries = <<>> THEN m
    ELSE BuildById(Tail(countries), MapSet(m, Head(countries).id, Head(countries)))

RECURSIVE BuildByName(_, _)
\* byName.set(country.name.toLowerCase(), country) for each country
BuildByName(countries, m) ==
    IF countries = <<>> THEN m
    ELSE BuildByName(Tail(countries),
            MapSet(m, Str(ToLowerCase(Head(countries).name.s)), Head(countries)))

(***************************************************************************)
(* Border meshes (part_003:128-148).                                       *)
(***************************************************************************)
MeshesThrow(countries) ==
    \E i \in 1..Len(countries) : GeometryToLinesThrows(countries[i].geometry)

FirstThrowing(countries) ==
    CHOOSE i \in 1..Len(countries) :
        /\ GeometryToLinesThrows(countries[i].geometry)
        /\ \A j \in 1..(i - 1) : ~GeometryToLinesThrows(countries[j].geometry)

RECURSIVE CountryLines(_)
CountryLines(countries) ==
    IF countries = <<>> THEN <<>>
    ELSE GeometryToLines(Head(countries).geometry) \o CountryLines(Tail(countries))

\* the lines added to the new group: all of them, or those of the countries
\* before the one whose geometry throws
MeshLines(countries) ==
    IF MeshesThrow(countries)
    THEN CountryLines(SubSeq(countries, 1, FirstThrowing(countries) - 1))
    ELSE CountryLines(countries)

(***************************************************************************)
(* State.                                                                  *)
(*   pc             where the load() call stands: "idle" (not called),     *)
(*                  "fetching" (awaiting fetch / response.json),           *)
(*                  "meshesDone" (awaiting _createCountryMeshes()),        *)
(*                  "done" (returned), "failed" (threw)                    *)
(*   features       countries.features, the records load has processed     *)
(*   countryData, lookupCanvas, bordersGroup   fields of CountryRenderer;  *)
(*                  lookupCanvas and bordersGroup are <<>> while null      *)
(*   lookupTexture  the CanvasTexture over lookupCanvas: "null", "live"    *)
(*                  or "disposed"                                          *)
(*   sceneBorders   the 'borders' groups among the scene's children, each  *)
(*                  named by the load call that created it                 *)
(*   stLoaded, stData, stById, stByName, stHighlighted   state.countries   *)
(*   lastError      what load() threw                                      *)
(*   picked         the last call made after construction other than load, *)
(*                  what it returned and whether it threw                  *)
(*   loadNo, publishedBy, completed   bookkeeping: the number of load      *)
(*                  calls so far, the call that last wrote                 *)
(*                  state.countries, the calls that ran to the end         *)
(*   notified       the paths the last step passed to StateManager._notify *)
(*   seen           what state.countries held at each of those             *)
(*                  notifications, as a listener of the path or of the     *)
(*                  parent path 'countries' reads it: [path, loaded,       *)
(*                  data, byId, byName]                                    *)
(*   flyTarget      the (lat, lon) of the last sceneManager.flyTo call,    *)
(*                  <<>> before the first                                  *)
(*   cPc, cId, cColor, cDecoded   a run of the colour codec on one id      *)
(*   gPc, gGeom, gCentroid, gBounds   a run of the geometric analysis on   *)
(*                  one geometry                                           *)
(*   tPc, tLat, tLon, tRadius, tCamera, tBorder, tGlobe, tBack   a run of  *)
(*                  the three projections and of the unprojection on one   *)
(*                  (lat, lon, radius)                                     *)
(*   autoRotate     controls.autoRotate of the scene manager               *)
(*   stAutoRotate   state.globe.autoRotate                                 *)
(*   autoRotateBefore   its value before the first flight                  *)
(*   autoRotateSet  state.set('globe.autoRotate', v) was called after the  *)
(*                  first flyTo                                            *)
(*   timers         the pending setTimeout callbacks of flyTo, in the      *)
(*                  order of their creation: [was, due]                    *)
(*   now            the time, in units of 100 ms                           *)
(*   flights        the number of flyTo calls so far                       *)
(*   initialized    App.initialized                                        *)
(*   initPc         where each call of App.init stands: "idle" (not made), *)
(*                  "returned" (by the guard), "awaitGlobe", "awaitFetch"  *)
(*                  and "awaitMeshes" (at the awaits of its load),         *)
(*                  "done", "failed" (caught an error)                     *)
(*   initLoad       the number of the load() call each call of App.init    *)
(*                  made, 0 before                                         *)
(*   sceneInits, globes, loadCalls, interactionSetups, loopStarts   how    *)
(*                  often sceneManager.init ran, a globe mesh was added to *)
(*                  the scene, countryRenderer.load was called, the canvas *)
(*                  handlers were registered, sceneManager.start ran       *)
(*   panelOpen      whether the side panel and the settings panel carry    *)
(*                  the class 'open': [side, settings]                     *)
(*   quizModalHidden   whether the quiz modal carries the class 'hidden'   *)
(*   inputFocused   document.activeElement is an INPUT                     *)
(*   bubbling       the target of the click that has passed the target's   *)
(*                  own listener and not yet the document's, or "none"     *)
(*   quizActive     state.quiz.active                                      *)
(*   autoRotateChecked   whether the auto-rotate checkbox is checked       *)
(*   countryItems   the data-id of the .country-item elements of the       *)
(*                  country list, <<>> before _renderCountryList           *)
(*   uiLog          the event dispatched last, with the panels before it   *)
(*   store          StateManager._state, by leaf path                      *)
(*   listeners      StateManager._listeners: per path the callbacks of its *)
(*                  Set, in insertion order                                *)
(*   subscriptions  the subscribe calls made so far, each with whether the *)
(*                  function it returned has been called                   *)
(*   setsDone       the set calls of the last operation: path, value and   *)
(*                  the value the path held before                         *)
(*   calls          the callback invocations of the last operation         *)
(***************************************************************************)
VARIABLES pc, features, countryData, lookupCanvas, lookupTexture, bordersGroup,
          sceneBorders,
          stLoaded, stData, stById, stByName, stHighlighted,
          lastError, picked, loadNo, publishedBy, completed, notified, seen, flyTarget,
          cPc, cId, cColor, cDecoded,
          gPc, gGeom, gCentroid, gBounds,
          tPc, tLat, tLon, tRadius, tCamera, tBorder, tGlobe, tBack,
          autoRotate, stAutoRotate, autoRotateBefore, autoRotateSet, timers, now, flights,
          initialized, initPc, initLoad, sceneInits, globes, loadCalls, interactionSetups,
          loopStarts,
          panelOpen, quizModalHidden, inputFocused, bubbling, quizActive,
          autoRotateChecked, countryItems, uiLog,
          store, listeners, subscriptions, setsDone, calls

vars == <<pc, features, countryData, lookupCanvas, lookupTexture, bordersGroup,
          sceneBorders,
          stLoaded, stData, stById, stByName, stHighlighted,
          lastError, picked, loadNo, publishedBy, completed, notified, seen, flyTarget,
          cPc, cId, cColor, cDecoded,
          gPc, gGeom, gCentroid, gBounds,
          tPc, tLat, tLon, tRadius, tCamera, tBorder, tGlobe, tBack,
          autoRotate, stAutoRotate, autoRotateBefore, autoRotateSet, timers, now, flights,
          initialized, initPc, initLoad, sceneInits, globes, loadCalls, interactionSetups,
          loopStarts,
          panelOpen, quizModalHidden, inputFocused, bubbling, quizActive,
          autoRotateChecked, countryItems, uiLog,
          store, listeners, subscriptions, setsDone, calls>>

rendererVars == <<countryData, lookupCanvas, lookupTexture, bordersGroup, sceneBorders>>
countriesVars == <<stLoaded, stData, stById, stByName>>
bookVars == <<loadNo, publishedBy, completed>>
codecVars == <<cPc, cId, cColor, cDecoded>>
geoVars == <<gPc, gGeom, gCentroid, gBounds>>
trigVars == <<tPc, tLat, tLon, tRadius, tCamera, tBorder, tGlobe, tBack>>
flyVars == <<autoRotate, stAutoRotate, autoRotateBefore, autoRotateSet, timers, now,
             flights>>
initVars == <<initialized, initPc, initLoad, sceneInits, globes, loadCalls, interactionSetups,
              loopStarts>>
uiVars == <<panelOpen, quizModalHidden, inputFocused, bubbling, quizActive,
            autoRotateChecked, countryItems, uiLog>>
\* the variables of the application around the renderer
storeVars == <<store, listeners, subscriptions, setsDone, calls>>
appVars == <<flyVars, initVars, uiVars, storeVars>>
\* the variables no method of the renderer touches: the runs of the pure
\* functions and the application around the renderer
pureVars == <<codecVars, geoVars, trigVars, appVars>>
\* the renderer's own variables, and those with the camera's target
countryRendererVars == <<pc, features, rendererVars, countriesVars, stHighlighted,
                         lastError, picked, bookVars, notified, seen>>
engineVars == <<countryRendererVars, flyTarget>>
notFlyVars == <<engineVars, codecVars, geoVars, trigVars, initVars, uiVars, storeVars>>

\* state.countries as a listener notified for `path` reads it when the
\* notification leaves loaded, data and the indices as they are
Snapshot(path) ==
    [path |-> path, loaded |-> stLoaded, data |-> stData, byId |-> stById,
     byName |-> stByName]

NoQuery == [op |-> "none", arg |-> <<>>, result |-> <<>>, pixel |-> Black, threw |-> FALSE]

InitEngine ==
    /\ pc = "idle"
    /\ features = <<>>
    /\ countryData = <<>>
    /\ lookupCanvas = <<>>
    /\ lookupTexture = "null"
    /\ bordersGroup = <<>>
    /\ sceneBorders = <<>>
    /\ stLoaded = FALSE
    /\ stData = <<>>
    /\ stById = <<>>
    /\ stByName = <<>>
    /\ stHighlighted = <<>>
    /\ lastError = "none"
    /\ picked = NoQuery
    /\ loadNo = 0
    /\ publishedBy = 0
    /\ completed = {}
    /\ notified = <<>>
    /\ seen = <<>>
    /\ flyTarget = <<>>

InitCodecIdle ==
    /\ cPc = "idle"
    /\ cId = 0
    /\ cColor = Black
    /\ cDecoded = 0

NoPoint ==
    << <<0, 0, 0, 0, 0, 0, 1>>, <<0, 0, 0, 0, 0, 0, 1>>, <<0, 0, 0, 0, 0, 0, 1>> >>

InitGeoIdle ==
    /\ gPc = "idle"
    /\ gGeom = GeomNull
    /\ gCentroid = [lat |-> <<0, 1>>, lon |-> <<0, 1>>]
    /\ gBounds = [minLat |-> 90, maxLat |-> -90, minLon |-> 180, maxLon |-> -180]

InitTrigIdle ==
    /\ tPc = "idle"
    /\ tLat = 0
    /\ tLon = 0
    /\ tRadius = 1
    /\ tCamera = NoPoint
    /\ tBorder = NoPoint
    /\ tGlobe = NoPoint
    /\ tBack = <<>>

\* state.globe.autoRotate is true by default (state.js:30)
InitFlyIdle ==
    /\ autoRotate = TRUE
    /\ stAutoRotate = TRUE
    /\ autoRotateBefore = TRUE
    /\ autoRotateSet = FALSE
    /\ timers = <<>>
    /\ now = 0
    /\ flights = 0

\* no call of App.init is followed
InitInitIdle ==
    /\ initialized = FALSE
    /\ initPc = <<>>
    /\ initLoad = <<>>
    /\ sceneInits = 0
    /\ globes = 0
    /\ loadCalls = 0
    /\ interactionSetups = 0
    /\ loopStarts = 0

\* the page is not followed: no event is dispatched, the classes of its
\* elements are never read
InitUiIdle ==
    /\ panelOpen = [side |-> FALSE, settings |-> FALSE]
    /\ quizModalHidden = TRUE
    /\ inputFocused = FALSE
    /\ bubbling = "none"
    /\ quizActive = FALSE
    /\ autoRotateChecked = TRUE
    /\ countryItems = <<>>
    /\ uiLog = <<>>

\* the paths of the store the model follows, and 'quiz', their parent
LeafPaths == {"loadProgress", "quiz.score", "quiz.streak"}
AllPaths == LeafPaths \cup {"quiz"}

\* loadProgress: 0, quiz.score: 0, quiz.streak: 0; no listener
InitStoreIdle ==
    /\ store = [p \in LeafPaths |-> 0]
    /\ listeners = [p \in AllPaths |-> <<>>]
    /\ subscriptions = <<>>
    /\ setsDone = <<>>
    /\ calls = <<>>

\* get(path)
StoreGet(st, path) ==
    IF path = "quiz"
    THEN [score |-> st["quiz.score"], streak |-> st["quiz.streak"]]
    ELSE st[path]

\* the parent paths of a path, nearest first
ParentPaths(path) ==
    IF path \in {"quiz.score", "quiz.streak"} THEN <<"quiz">> ELSE <<>>

\* Set.add and Set.delete, the Set kept in insertion order
SetAdd(set, cb) ==
    IF \E i \in DOMAIN set : set[i] = cb THEN set ELSE Append(set, cb)

SetDelete(set, cb) == SelectSeq(set, LAMBDA x : x # cb)

\* the calls cb(value, old, path) of the listeners of one path, old being
\* null when oldNull
ListenerCalls(ls, at, value, oldNull, old, path) ==
    [i \in DOMAIN ls[at] |->
        [cb |-> ls[at][i], value |-> value, oldNull |-> oldNull,
         old |-> old, path |-> path]]

RECURSIVE ParentCalls(_, _, _, _)
ParentCalls(st, ls, parents, path) ==
    IF parents = <<>> THEN <<>>
    ELSE ListenerCalls(ls, Head(parents), StoreGet(st, Head(parents)), TRUE, 0, path)
            \o ParentCalls(st, ls, Tail(parents), path)

\* _notify(path, newValue, oldValue), st being the store after the write
Notify(st, ls, path, newValue, oldValue) ==
    ListenerCalls(ls, path, newValue, FALSE, oldValue, path)
        \o ParentCalls(st, ls, ParentPaths(path), path)

\* set(path, value): the store after it, the calls it makes, what it did
StoreSet(st, ls, path, value) ==
    LET after == [st EXCEPT ![path] = value]
    IN  [store |-> after,
         calls |-> Notify(after, ls, path, value, st[path]),
         done |-> [path |-> path, value |-> value, old |-> st[path]]]

InitAppIdle == InitFlyIdle /\ InitInitIdle /\ InitUiIdle /\ InitStoreIdle

Init == InitEngine /\ InitCodecIdle /\ InitGeoIdle /\ InitTrigIdle /\ InitAppIdle

(***************************************************************************)
(* load() (part_003:25-73), cut at its awaits.  App.init calls it once     *)
(* (part_002:43).                                                          *)
(***************************************************************************)
\* lines 26-30: state.set('countries.loaded', false), then the fetch is awaited
LoadStart ==
    /\ pc = "idle"
    /\ pc' = "fetching"
    /\ loadNo' = loadNo + 1
    /\ stLoaded' = FALSE
    /\ notified' = <<"countries.loaded">>
    /\ seen' = <<[Snapshot("countries.loaded") EXCEPT !.loaded = FALSE]>>
    /\ UNCHANGED <<features, rendererVars, stData, stById, stByName, stHighlighted,
                   lastError, picked, publishedBy, completed, flyTarget, pureVars>>

\* lines 30-31 reject (network error, body that is not JSON): caught, rethrown
LoadFetchFail ==
    /\ pc = "fetching"
    /\ pc' = "failed"
    /\ lastError' = "FetchError"
    /\ notified' = <<>>
    /\ seen' = <<>>
    /\ UNCHANGED <<features, rendererVars, countriesVars, stHighlighted, picked,
                   bookVars, flyTarget, pureVars>>

\* lines 34-46 when the map callback throws: nothing has been assigned yet
LoadProcessFail(input) ==
    /\ pc = "fetching"
    /\ ProcessThrows(input)
    /\ pc' = "failed"
    /\ lastError' = "TypeError"
    /\ notified' = <<>>
    /\ seen' = <<>>
    /\ UNCHANGED <<features, rendererVars, countriesVars, stHighlighted, picked,
                   bookVars, flyTarget, pureVars>>

\* lines 34-64: process the features, build the maps, state.update, and
\* _createCountryMeshes up to its end or to the geometry that throws
LoadProcess(input) ==
    /\ pc = "fetching"
    /\ ~ProcessThrows(input)
    /\ features' = input
    /\ LET data == ProcessFeatures(input)
       IN  /\ countryData' = data
           /\ stLoaded' = TRUE
           /\ stData' = data
           /\ stById' = BuildById(data, <<>>)
           /\ stByName' = BuildByName(data, <<>>)
           /\ publishedBy' = loadNo
           /\ notified' = <<"countries.loaded", "countries.data",
                            "countries.byId", "countries.byName">>
           /\ seen' =
                  << [path |-> "countries.loaded", loaded |-> TRUE, data |-> stData,
                      byId |-> stById, byName |-> stByName],
                     [path |-> "countries.data", loaded |-> TRUE, data |-> data,
                      byId |-> stById, byName |-> stByName],
                     [path |-> "countries.byId", loaded |-> TRUE, data |-> data,
                      byId |-> BuildById(data, <<>>), byName |-> stByName],
                     [path |-> "countries.byName", loaded |-> TRUE, data |-> data,
                      byId |-> BuildById(data, <<>>),
                      byName |-> BuildByName(data, <<>>)] >>
           /\ bordersGroup' = <<[owner |-> loadNo, lines |-> MeshLines(data),
                                 disposed |-> FALSE]>>
           /\ IF MeshesThrow(data)
              THEN /\ pc' = "failed"
                   /\ lastError' = "TypeError"
                   /\ sceneBorders' = sceneBorders
              ELSE /\ pc' = "meshesDone"
                   /\ lastError' = lastError
                   /\ sceneBorders' = Append(sceneBorders, loadNo)
    /\ UNCHANGED <<lookupCanvas, lookupTexture, stHighlighted, picked, loadNo,
                   completed, flyTarget, pureVars>>

\* lines 65-67: _createLookupTexture, return (a geometry that would make
\* _drawGeometry throw has already made _createCountryMeshes throw)
LoadRaster ==
    /\ pc = "meshesDone"
    /\ lookupCanvas' = <<CreateLookupTexture(countryData)>>
    /\ lookupTexture' = "live"
    /\ pc' = "done"
    /\ completed' = completed \cup {loadNo}
    /\ notified' = <<>>
    /\ seen' = <<>>
    /\ UNCHANGED <<features, countryData, bordersGroup, sceneBorders, countriesVars,
                   stHighlighted, lastError, picked, loadNo, publishedBy, flyTarget, pureVars>>

(***************************************************************************)
(* Queries.  Event handlers and timers are tasks of the event loop, and    *)
(* the await of _createCountryMeshes() only yields to the microtask queue, *)
(* so none of them runs while pc = "meshesDone".                           *)
(***************************************************************************)
\* x = floor(uv.x * width), y = floor((1 - uv.y) * height); uv = <<un, vn>> / UDen
PixelX(uv) == (uv[1] * size) \div UDen
PixelY(uv) == ((UDen - uv[2]) * size) \div UDen

\* ctx.getImageData(x, y, 1, 1).data
UvPixel(uv) == PixelAt(lookupCanvas[1], PixelX(uv), PixelY(uv))

GetCountryAtUVNoSentinel(uv) ==
    IF lookupCanvas = <<>> THEN <<>>
    ELSE MapGet(stById, Num(ColorToId(UvPixel(uv)[1], UvPixel(uv)[2], UvPixel(uv)[3])))

\* getCountryAtUV from the pixel coordinates on (part_003:284-292)
GetCountryAtPixel(x, y) ==
    IF lookupCanvas = <<>> THEN <<>>
    ELSE LET pixel == PixelAt(lookupCanvas[1], x, y)
         IN  IF pixel = Black THEN <<>>
             ELSE MapGet(stById, Num(ColorToId(pixel[1], pixel[2], pixel[3])))

\* getCountryAtUV (part_003:279-293): <<>> for null, else <<country>>
GetCountryAtUV(uv) == GetCountryAtPixel(PixelX(uv), PixelY(uv))

\* a pick that also highlights the country under the pointer
PickHovering(uv) ==
    /\ pc # "meshesDone"
    /\ picked' = [op |-> "getCountryAtUV", arg |-> uv, result |-> GetCountryAtUV(uv),
                  pixel |-> IF lookupCanvas = <<>> THEN Black ELSE UvPixel(uv),
                  threw |-> FALSE]
    /\ stHighlighted' = IF GetCountryAtUV(uv) = <<>> THEN <<>>
                        ELSE <<GetCountryAtUV(uv)[1].id>>
    /\ notified' = <<"countries.highlighted">>
    /\ seen' = <<Snapshot("countries.highlighted")>>
    /\ UNCHANGED <<pc, features, rendererVars, countriesVars, lastError,
                   bookVars, flyTarget, pureVars>>

\* a call of getCountryAtUV, as the mousemove handler makes it on the globe
\* (part_002:80-99); state.get notifies nobody
Pick(uv) ==
    /\ pc # "meshesDone"
    /\ picked' = [op |-> "getCountryAtUV", arg |-> uv, result |-> GetCountryAtUV(uv),
                  pixel |-> IF lookupCanvas = <<>> THEN Black ELSE UvPixel(uv),
                  threw |-> FALSE]
    /\ notified' = <<>>
    /\ seen' = <<>>
    /\ UNCHANGED <<pc, features, rendererVars, countriesVars, stHighlighted, lastError,
                   bookVars, flyTarget, pureVars>>

\* clearHighlight (part_003:314-320): state.set('countries.highlighted', null);
\* highlightMesh is never assigned, so nothing leaves the scene
ClearHighlight ==
    /\ pc # "meshesDone"
    /\ stHighlighted' = <<>>
    /\ picked' = [op |-> "clearHighlight", arg |-> <<>>, result |-> <<>>,
                  pixel |-> Black, threw |-> FALSE]
    /\ notified' = <<"countries.highlighted">>
    /\ seen' = <<Snapshot("countries.highlighted")>>
    /\ UNCHANGED <<pc, features, rendererVars, countriesVars, lastError,
                   bookVars, flyTarget, pureVars>>

\* highlight (part_003:298-309), its call of clearHighlight included
Highlight(countryId) ==
    /\ pc # "meshesDone"
    /\ stHighlighted' = IF MapGet(stById, countryId) = <<>> THEN <<>> ELSE <<countryId>>
    /\ picked' = [op |-> "highlight", arg |-> countryId,
                  result |-> MapGet(stById, countryId), pixel |-> Black,
                  threw |-> FALSE]
    /\ notified' = IF MapGet(stById, countryId) = <<>>
                   THEN <<"countries.highlighted">>
                   ELSE <<"countries.highlighted", "countries.highlighted">>
    /\ seen' = IF MapGet(stById, countryId) = <<>>
               THEN <<Snapshot("countries.highlighted")>>
               ELSE <<Snapshot("countries.highlighted"), Snapshot("countries.highlighted")>>
    /\ UNCHANGED <<pc, features, rendererVars, countriesVars, lastError,
                   bookVars, flyTarget, pureVars>>

RECURSIVE SceneRemove(_, _)
\* scene.remove(object): the children without it
SceneRemove(children, owner) ==
    IF children = <<>> THEN <<>>
    ELSE (IF Head(children) = owner THEN <<>> ELSE <<Head(children)>>)
         \o SceneRemove(Tail(children), owner)

\* dispose (part_003:366-384): the border lines' geometries and material are
\* disposed and the group leaves the scene, the lookup texture is disposed;
\* highlightMesh is never assigned and countryMeshes never filled, so their
\* branches change nothing.  No field is reset and state.countries is not
\* touched.
Dispose ==
    /\ pc # "meshesDone"
    /\ bordersGroup' = IF bordersGroup = <<>> THEN <<>>
                       ELSE <<[bordersGroup[1] EXCEPT !.disposed = TRUE]>>
    /\ sceneBorders' = IF bordersGroup = <<>> THEN sceneBorders
                       ELSE SceneRemove(sceneBorders, bordersGroup[1].owner)
    /\ lookupTexture' = IF lookupTexture = "null" THEN "null" ELSE "disposed"
    /\ picked' = [op |-> "dispose", arg |-> <<>>, result |-> <<>>, pixel |-> Black,
                  threw |-> FALSE]
    /\ notified' = <<>>
    /\ seen' = <<>>
    /\ UNCHANGED <<pc, features, countryData, lookupCanvas, countriesVars,
                   stHighlighted, lastError, bookVars, flyTarget, pureVars>>

\* flyTo calls made in one run
MaxFlights == 2

\* the default duration of flyTo, in units of 100 ms
DefaultFlyDuration == 10

\* SceneManager.flyTo(lat, lon, duration), part_001:175-213: compute the
\* target, save controls.autoRotate, clear it, start the animation,
\* setTimeout(restore, duration + 100)
SceneFlyTo(lat, lon, duration) ==
    /\ flyTarget' = <<[lat |-> lat, lon |-> lon]>>
    /\ autoRotateBefore' = IF flights = 0 THEN autoRotate ELSE autoRotateBefore
    /\ autoRotateSet' = autoRotateSet
    /\ stAutoRotate' = stAutoRotate
    /\ autoRotate' = FALSE
    /\ timers' = Append(timers, [was |-> autoRotate, due |-> now + duration + 1])
    /\ flights' = flights + 1
    /\ now' = now

\* the timer that fires next: the least due time, the earliest created
NextTimer ==
    CHOOSE i \in 1..Len(timers) :
        /\ \A j \in 1..Len(timers) : timers[i].due <= timers[j].due
        /\ \A j \in 1..(i - 1) : timers[j].due > timers[i].due

\* the callback of setTimeout, part_001:210-212
RestoreAutoRotate ==
    /\ timers # <<>>
    /\ timers[NextTimer].due <= now
    /\ pc # "meshesDone"
    /\ autoRotate' = timers[NextTimer].was
    /\ timers' = [k \in 1..(Len(timers) - 1) |->
                     IF k < NextTimer THEN timers[k] ELSE timers[k + 1]]
    /\ UNCHANGED <<stAutoRotate, autoRotateBefore, autoRotateSet, now, flights, notFlyVars>>

\* the time passes until the next timer is due
AwaitTimer ==
    /\ timers # <<>>
    /\ timers[NextTimer].due > now
    /\ now' = timers[NextTimer].due
    /\ UNCHANGED <<autoRotate, stAutoRotate, autoRotateBefore, autoRotateSet, timers, flights,
                   notFlyVars>>

\* what flyToCountry leaves alone outside the renderer and the scene
notFlightVars == <<codecVars, geoVars, trigVars, initVars, uiVars, storeVars>>

\* flyToCountry without its guard: reading the centroid of undefined throws
FlyToCountryNoGuard(countryId) ==
    /\ pc # "meshesDone"
    /\ MapGet(stById, countryId) # <<>> => flights < MaxFlights
    /\ IF MapGet(stById, countryId) = <<>> THEN UNCHANGED <<flyVars, flyTarget>>
       ELSE SceneFlyTo(MapGet(stById, countryId)[1].centroid.lat,
                       MapGet(stById, countryId)[1].centroid.lon, DefaultFlyDuration)
    /\ picked' = [op |-> "flyToCountry", arg |-> countryId,
                  result |-> MapGet(stById, countryId), pixel |-> Black,
                  threw |-> MapGet(stById, countryId) = <<>>]
    /\ notified' = <<>>
    /\ seen' = <<>>
    /\ UNCHANGED <<pc, features, rendererVars, countriesVars, stHighlighted, lastError,
                   bookVars, notFlightVars>>

\* flyToCountry (part_003:356-361): nothing for an id the index does not hold,
\* else sceneManager.flyTo(centroid.lat, centroid.lon), which starts the
\* camera's flight to that (lat, lon), clears controls.autoRotate and sets
\* the timer that restores it
FlyToCountry(countryId) ==
    /\ pc # "meshesDone"
    /\ MapGet(stById, countryId) # <<>> => flights < MaxFlights
    /\ IF MapGet(stById, countryId) = <<>> THEN UNCHANGED <<flyVars, flyTarget>>
       ELSE SceneFlyTo(MapGet(stById, countryId)[1].centroid.lat,
                       MapGet(stById, countryId)[1].centroid.lon, DefaultFlyDuration)
    /\ picked' = [op |-> "flyToCountry", arg |-> countryId,
                  result |-> MapGet(stById, countryId), pixel |-> Black,
                  threw |-> FALSE]
    /\ notified' = <<>>
    /\ seen' = <<>>
    /\ UNCHANGED <<pc, features, rendererVars, countriesVars, stHighlighted, lastError,
                   bookVars, notFlightVars>>

Next ==
    \/ LoadStart
    \/ LoadFetchFail
    \/ \E input \in InputBatches : LoadProcessFail(input)
    \/ \E input \in InputBatches : LoadProcess(input)
    \/ LoadRaster
    \/ \E uv \in UVs : Pick(uv)
    \/ \E countryId \in QueryIds : Highlight(countryId)
    \/ ClearHighlight

Spec == Init /\ [][Next]_vars

(***************************************************************************)
(* The whole interface of CountryRenderer, disposal and camera flights     *)
(* included, on the batches of one record and on one batch of two.         *)
(***************************************************************************)
\* geometries without a vertex
DegenerateGeometries == {GeomEmpty, GeomEmptyRing, GeomEmptyMulti, GeomNoCoords}

\* a record without a vertex before or after a plain record
DegenerateBatches ==
    {<<Rec(Id7, NameAb, g), Rec(Id1, NameaB, GeomB)>> : g \in DegenerateGeometries}
    \cup {<<Rec(Id1, NameaB, GeomB), Rec(Id7, NameAb, g)>> : g \in DegenerateGeometries}

\* polygons with a second ring, alone and with the polygon that fills the hole
HoleBatches ==
    {<<Rec(id, NameAb, g)>> : id \in {Id7, IdStr7, IdBig},
                              g \in {GeomHoleA, GeomHoleMulti, GeomStray}}
    \cup {<<Rec(Id7, NameAb, GeomHoleA), Rec(Id1, NameaB, GeomEnclave)>>,
          <<Rec(Id1, NameaB, GeomEnclave), Rec(Id7, NameAb, GeomHoleA)>>}

ApiBatches ==
    {<<r>> : r \in InputRecords}
    \cup {<<Rec(Id7, NameAb, GeomA), Rec(Id1, NameaB, GeomB)>>}
    \cup DegenerateBatches
    \cup HoleBatches

\* the renderer's interface with the timers its flights start; the user's
\* auto-rotate setting, the other writer of controls.autoRotate, is followed
\* in SpecFly
NextApi ==
    \/ LoadStart
    \/ LoadFetchFail
    \/ \E input \in ApiBatches : LoadProcessFail(input)
    \/ \E input \in ApiBatches : LoadProcess(input)
    \/ LoadRaster
    \/ \E uv \in UVs : Pick(uv)
    \/ \E countryId \in QueryIds : Highlight(countryId)
    \/ ClearHighlight
    \/ \E countryId \in QueryIds : FlyToCountry(countryId)
    \/ Dispose
    \/ AwaitTimer
    \/ RestoreAutoRotate

SpecApi == Init /\ [][NextApi]_vars

(***************************************************************************)
(* App.init (part_002:21-69), cut at its awaits.  The module calls it once *)
(* when the DOM is ready (part_002:195-200) and exports the app, whose     *)
(* init any importer can call again.  The document has the canvas          *)
(* container.                                                              *)
(***************************************************************************)
\* init calls made in one run
MaxInitCalls == 3

InitCalls == 1..MaxInitCalls

InitApp ==
    /\ InitEngine
    /\ InitCodecIdle
    /\ InitGeoIdle
    /\ InitTrigIdle
    /\ InitFlyIdle
    /\ InitUiIdle
    /\ InitStoreIdle
    /\ initialized = FALSE
    /\ initPc = [c \in InitCalls |-> "idle"]
    /\ initLoad = [c \in InitCalls |-> 0]
    /\ sceneInits = 0
    /\ globes = 0
    /\ loadCalls = 0
    /\ interactionSetups = 0
    /\ loopStarts = 0

\* what neither init nor the calls it makes touch
initRestVars == <<codecVars, geoVars, trigVars, flyVars, uiVars, listeners, subscriptions>>

\* the data the fetch of load() can return: a batch that loads, one whose
\* border lines throw, one whose analysis throws
AppBatches ==
    { <<Rec(Id7, NameAb, GeomA)>>,
      <<Rec(Id7, NameAb, GeomShallow)>>,
      <<Rec(Id7, NameAb, GeomNull)>> }

\* state.set('loadProgress', value), as GlobeRenderer makes it
SetLoadProgress(value) ==
    LET r == StoreSet(store, listeners, "loadProgress", value)
    IN  /\ store' = r.store
        /\ calls' = r.calls
        /\ setsDone' = <<r.done>>

\* no call of init stands between the end of _createCountryMeshes and the
\* continuation of its load(), which is a microtask: no task (a texture's
\* callback, a response, a call from another module's task) runs there
NoLoadResuming == \A d \in InitCalls : initPc[d] # "awaitMeshes"

\* lines 22-40: return if initialized, else sceneManager.init(container).
\* Where the page gets no WebGL context, new THREE.WebGLRenderer throws
\* (part_001:40) before the controls are built, and the catch of lines
\* 65-68 ends the call at once.  Else sceneManager.init builds new controls
\* and sets their autoRotate from the state (part_001:54-62), and
\* globeRenderer.create() is called, which sets loadProgress to 0
\* (part_003:414) and awaits its textures.
AppInit(c) ==
    /\ initPc[c] = "idle"
    /\ \A d \in 1..(c - 1) : initPc[d] # "idle"
    /\ NoLoadResuming
    /\ IF initialized
       THEN /\ initPc' = [initPc EXCEPT ![c] = "returned"]
            /\ UNCHANGED <<sceneInits, autoRotate, store, calls, setsDone>>
       ELSE \/ /\ initPc' = [initPc EXCEPT ![c] = "failed"]
               /\ sceneInits' = sceneInits + 1
               /\ UNCHANGED <<autoRotate, store, calls, setsDone>>
            \/ /\ initPc' = [initPc EXCEPT ![c] = "awaitGlobe"]
               /\ sceneInits' = sceneInits + 1
               /\ autoRotate' = stAutoRotate
               /\ SetLoadProgress(0)
    /\ UNCHANGED <<initialized, initLoad, globes, loadCalls, interactionSetups, loopStarts,
                   engineVars, codecVars, geoVars, trigVars, stAutoRotate,
                   autoRotateBefore, autoRotateSet, timers, now, flights, uiVars,
                   listeners, subscriptions>>

\* the one texture with a URL (config.js:20) has loaded: its callback sets
\* loadProgress to 100 (part_003:484-489), globeRenderer.create() resolves
\* (the mesh is in the scene, part_003:437-441) and line 43 calls
\* countryRenderer.load(), which runs up to its fetch (part_003:26-30) and is
\* awaited.  load() has no guard: a load that an earlier call of init made
\* and that is still in flight goes on beside the new one, each with its own
\* response, and each call of init awaits its own.
GlobeCreated(c) ==
    /\ initPc[c] = "awaitGlobe"
    /\ NoLoadResuming
    /\ initPc' = [initPc EXCEPT ![c] = "awaitFetch"]
    /\ globes' = globes + 1
    /\ loadCalls' = loadCalls + 1
    /\ SetLoadProgress(100)
    /\ loadNo' = loadNo + 1
    /\ initLoad' = [initLoad EXCEPT ![c] = loadNo + 1]
    /\ stLoaded' = FALSE
    /\ notified' = <<"countries.loaded">>
    /\ seen' = <<[Snapshot("countries.loaded") EXCEPT !.loaded = FALSE]>>
    /\ UNCHANGED <<pc, features, rendererVars, stData, stById, stByName, stHighlighted,
                   lastError, picked, publishedBy, completed, flyTarget>>
    /\ UNCHANGED <<initialized, sceneInits, interactionSetups, loopStarts, initRestVars>>

\* globeRenderer.create() rejects after the texture has loaded and set
\* loadProgress to 100, and init catches (lines 65-68): create() threw
\* before it added the globe to the scene (part_003:422-434) or, `added`,
\* after it (part_003:437-449: the atmosphere, a listener of globe.ready)
InitFails(c, added) ==
    /\ initPc[c] = "awaitGlobe"
    /\ NoLoadResuming
    /\ SetLoadProgress(100)
    /\ globes' = IF added THEN globes + 1 ELSE globes
    /\ initPc' = [initPc EXCEPT ![c] = "failed"]
    /\ UNCHANGED <<initialized, initLoad, sceneInits, loadCalls, interactionSetups,
                   loopStarts, engineVars, initRestVars>>

\* what the steps of a load under init leave alone outside the renderer
loadRestVars == <<initialized, initLoad, sceneInits, globes, loadCalls, interactionSetups,
                  loopStarts, codecVars, geoVars, trigVars, flyVars, uiVars, storeVars>>

\* the fetch of c's load rejects (part_003:30-31): load() logs and rethrows
\* (part_003:69-72), init catches (part_002:65-68)
AppLoadFetchFail(c) ==
    /\ initPc[c] = "awaitFetch"
    /\ NoLoadResuming
    /\ initPc' = [initPc EXCEPT ![c] = "failed"]
    /\ lastError' = "FetchError"
    /\ notified' = <<>>
    /\ seen' = <<>>
    /\ UNCHANGED <<pc, features, rendererVars, countriesVars, stHighlighted, picked,
                   bookVars, flyTarget, loadRestVars>>

\* c's load has its response and the map callback throws (part_003:34-46):
\* nothing has been assigned, load() rethrows, init catches
AppLoadProcessFail(c, input) ==
    /\ initPc[c] = "awaitFetch"
    /\ NoLoadResuming
    /\ ProcessThrows(input)
    /\ initPc' = [initPc EXCEPT ![c] = "failed"]
    /\ lastError' = "TypeError"
    /\ notified' = <<>>
    /\ seen' = <<>>
    /\ UNCHANGED <<pc, features, rendererVars, countriesVars, stHighlighted, picked,
                   bookVars, flyTarget, loadRestVars>>

\* c's load has its response, part_003:34-64: process the features, build
\* the maps, state.update, and _createCountryMeshes up to its end, which is
\* awaited, or to the geometry that throws, which init catches
AppLoadProcess(c, input) ==
    /\ initPc[c] = "awaitFetch"
    /\ NoLoadResuming
    /\ ~ProcessThrows(input)
    /\ features' = input
    /\ LET data == ProcessFeatures(input)
       IN  /\ countryData' = data
           /\ stLoaded' = TRUE
           /\ stData' = data
           /\ stById' = BuildById(data, <<>>)
           /\ stByName' = BuildByName(data, <<>>)
           /\ publishedBy' = initLoad[c]
           /\ notified' = <<"countries.loaded", "countries.data",
                            "countries.byId", "countries.byName">>
           /\ seen' =
                  << [path |-> "countries.loaded", loaded |-> TRUE, data |-> stData,
                      byId |-> stById, byName |-> stByName],
                     [path |-> "countries.data", loaded |-> TRUE, data |-> data,
                      byId |-> stById, byName |-> stByName],
                     [path |-> "countries.byId", loaded |-> TRUE, data |-> data,
                      byId |-> BuildById(data, <<>>), byName |-> stByName],
                     [path |-> "countries.byName", loaded |-> TRUE, data |-> data,
                      byId |-> BuildById(data, <<>>),
                      byName |-> BuildByName(data, <<>>)] >>
           /\ bordersGroup' = <<[owner |-> initLoad[c], lines |-> MeshLines(data),
                                 disposed |-> FALSE]>>
           /\ IF MeshesThrow(data)
              THEN /\ initPc' = [initPc EXCEPT ![c] = "failed"]
                   /\ lastError' = "TypeError"
                   /\ sceneBorders' = sceneBorders
              ELSE /\ initPc' = [initPc EXCEPT ![c] = "awaitMeshes"]
                   /\ lastError' = lastError
                   /\ sceneBorders' = Append(sceneBorders, initLoad[c])
    /\ UNCHANGED <<pc, lookupCanvas, lookupTexture, stHighlighted, picked, loadNo,
                   completed, flyTarget, loadRestVars>>

\* c's load goes on after its await: _createLookupTexture and the return
\* (part_003:65-67), on which init goes on in the same run of microtasks,
\* part_002:46-61: _setupInteractions, sceneManager.start,
\* this.initialized = true
CountriesLoaded(c) ==
    /\ initPc[c] = "awaitMeshes"
    /\ initPc' = [initPc EXCEPT ![c] = "done"]
    /\ lookupCanvas' = <<CreateLookupTexture(countryData)>>
    /\ lookupTexture' = "live"
    /\ completed' = completed \cup {initLoad[c]}
    /\ notified' = <<>>
    /\ seen' = <<>>
    /\ interactionSetups' = interactionSetups + 1
    /\ loopStarts' = loopStarts + 1
    /\ initialized' = TRUE
    /\ UNCHANGED <<pc, features, countryData, bordersGroup, sceneBorders, countriesVars,
                   stHighlighted, lastError, picked, loadNo, publishedBy, flyTarget>>
    /\ UNCHANGED <<initLoad, sceneInits, globes, loadCalls, codecVars, geoVars, trigVars,
                   flyVars, uiVars, storeVars>>

\* the calls of init, each with the load it makes; the renderer's own
\* position pc stays idle, no load is made past init
NextApp ==
    \/ \E c \in InitCalls : AppInit(c)
    \/ \E c \in InitCalls : GlobeCreated(c)
    \/ \E c \in InitCalls, added \in BOOLEAN : InitFails(c, added)
    \/ \E c \in InitCalls : AppLoadFetchFail(c)
    \/ \E c \in InitCalls, input \in AppBatches : AppLoadProcessFail(c, input)
    \/ \E c \in InitCalls, input \in AppBatches : AppLoadProcess(c, input)
    \/ \E c \in InitCalls : CountriesLoaded(c)

SpecApp == InitApp /\ [][NextApp]_vars

(***************************************************************************)
(* The page under UIController (src/src/ui/uiController.js): the listeners *)
(* that _setupEventListeners (91-219) and _renderCountryList (336-345)     *)
(* register on the menu and settings buttons, the close button, the        *)
(* auto-rotate checkbox, the country list, the buttons of the quiz modal   *)
(* and the document, with _togglePanel and _closePanel (273-292).  A click *)
(* runs the listener of its target and then, bubbling, the listener of the *)
(* document; a click on a checkbox is followed by its change event.  The   *)
(* scene manager is initialised, so its listener of globe.autoRotate is    *)
(* subscribed (part_001:72-74) and a flight finds its camera.  The other  *)
(* listeners (theme, sound, volume, borders, search, quiz mode and         *)
(* difficulty, lines 111-160) write nothing that is followed here; of the *)
(* controller's methods for the quiz (430-507) only endQuiz does.          *)
(***************************************************************************)
\* _closePanel
ClosePanel(panel, open) ==
    IF panel = "side" THEN [open EXCEPT !.side = FALSE]
    ELSE IF panel = "settings" THEN [open EXCEPT !.settings = FALSE]
    ELSE open

TogglePanelOnly(panel, open) ==
    IF panel = "side" THEN [open EXCEPT !.side = ~open.side]
    ELSE IF panel = "settings" THEN [open EXCEPT !.settings = ~open.settings]
    ELSE open

\* _togglePanel
TogglePanel(panel, open) ==
    IF panel = "side"
    THEN ClosePanel("settings", [open EXCEPT !.side = ~open.side])
    ELSE IF panel = "settings"
    THEN ClosePanel("side", [open EXCEPT !.settings = ~open.settings])
    ELSE open

\* what a click can hit: the two buttons of the top bar; the close button,
\* the volume slider and the auto-rotate checkbox inside the settings panel;
\* the search input and an item of the country list inside the side panel;
\* the two buttons of the quiz modal; anything else
ClickTargets ==
    {"btnMenu", "btnSettings", "btnCloseSettings", "soundVolume", "autoRotate",
     "countrySearch", "countryItem", "btnStartQuiz", "btnCancelQuiz", "outside"}

\* sidePanel.contains(target), settingsPanel.contains(target)
InSidePanel(target) == target \in {"countrySearch", "countryItem"}
InSettingsPanel(target) == target \in {"btnCloseSettings", "soundVolume", "autoRotate"}

\* the element a click gives the focus is an INPUT
IsInput(target) == target \in {"soundVolume", "autoRotate", "countrySearch"}

Keys == {"Escape", "m", "s", "q"}

\* `${country.id}`, the data-id of a country's item (line 329)
DataId(id) == Str(IF id.t = "number" THEN DecStr(id.n) ELSE id.s)

\* parseInt(item.dataset.id) (line 339) on a string of decimal digits
ParseInt(s) == Num(ParseDigits(s.s, 0))

\* the data the fetch can return here: one country whose id is the number
\* 7, one whose id is the string "7"
UiBatches == {<<Rec(Id7, NameAb, GeomA)>>, <<Rec(IdStr7, NameAb, GeomA)>>}

\* what the page starts with, index.html not being among the sources: the
\* side panel or the settings panel may carry the class 'open', not both;
\* the quiz modal may be hidden, the auto-rotate checkbox checked and an
\* input focused, or not
InitPage ==
    /\ panelOpen \in {open \in [side : BOOLEAN, settings : BOOLEAN] :
                         ~(open.side /\ open.settings)}
    /\ quizModalHidden \in BOOLEAN
    /\ inputFocused \in BOOLEAN
    /\ autoRotateChecked \in BOOLEAN

\* UIController.init (19-24) has run on that page: its listeners of
\* loadProgress, quiz.score and quiz.streak are subscribed (224-243), the
\* country list waits for the countries (308-318); no quiz is active
\* (state.js:47)
InitUi ==
    /\ InitEngine
    /\ InitCodecIdle
    /\ InitGeoIdle
    /\ InitTrigIdle
    /\ InitFlyIdle
    /\ InitInitIdle
    /\ InitPage
    /\ bubbling = "none"
    /\ quizActive = FALSE
    /\ countryItems = <<>>
    /\ uiLog = <<>>
    /\ store = [p \in LeafPaths |-> 0]
    /\ listeners = [p \in AllPaths |->
                       CASE p = "loadProgress" -> <<"uiLoadProgress">>
                         [] p = "quiz.score" -> <<"uiHudScore">>
                         [] p = "quiz.streak" -> <<"uiHudStreak">>
                         [] OTHER -> <<>>]
    /\ subscriptions =
           << [path |-> "loadProgress", cb |-> "uiLoadProgress", unsubscribed |-> FALSE],
              [path |-> "quiz.score", cb |-> "uiHudScore", unsubscribed |-> FALSE],
              [path |-> "quiz.streak", cb |-> "uiHudStreak", unsubscribed |-> FALSE] >>
    /\ setsDone = <<>>
    /\ calls = <<>>

\* the timer of _populateCountryList (308-318) finds countries and calls
\* _renderCountryList (323-332), once: an item for each country, in the
\* order of the names (the batches here hold one country)
RenderCountryList ==
    /\ bubbling = "none"
    /\ pc # "meshesDone"
    /\ countryItems = <<>>
    /\ stData # <<>>
    /\ countryItems' = [i \in DOMAIN stData |-> DataId(stData[i].id)]
    /\ UNCHANGED <<panelOpen, quizModalHidden, inputFocused, bubbling, quizActive,
                   autoRotateChecked, uiLog, engineVars, codecVars, geoVars, trigVars,
                   flyVars, initVars, storeVars>>

\* countryRenderer.flyToCountry(countryId), then
\* countryRenderer.highlight(countryId), lines 340-341
SelectCountry(countryId) ==
    /\ MapGet(stById, countryId) # <<>> => flights < MaxFlights
    /\ IF MapGet(stById, countryId) = <<>> THEN UNCHANGED <<flyVars, flyTarget>>
       ELSE SceneFlyTo(MapGet(stById, countryId)[1].centroid.lat,
                       MapGet(stById, countryId)[1].centroid.lon, DefaultFlyDuration)
    /\ stHighlighted' = IF MapGet(stById, countryId) = <<>> THEN <<>> ELSE <<countryId>>
    /\ picked' = [op |-> "highlight", arg |-> countryId,
                  result |-> MapGet(stById, countryId), pixel |-> Black,
                  threw |-> FALSE]
    /\ notified' = IF MapGet(stById, countryId) = <<>>
                   THEN <<"countries.highlighted">>
                   ELSE <<"countries.highlighted", "countries.highlighted">>
    /\ seen' = IF MapGet(stById, countryId) = <<>>
               THEN <<Snapshot("countries.highlighted")>>
               ELSE <<Snapshot("countries.highlighted"), Snapshot("countries.highlighted")>>

\* _startQuiz (397-425) on the store: state.update sets quiz.active, then,
\* among the paths followed, quiz.score and quiz.streak to 0 (the difficulty
\* is one of CONFIG.difficulty, 'medium' unless a button has set another)
StartQuiz ==
    LET r1 == StoreSet(store, listeners, "quiz.score", 0)
        r2 == StoreSet(r1.store, listeners, "quiz.streak", 0)
    IN  /\ quizActive' = TRUE
        /\ store' = r2.store
        /\ calls' = r1.calls \o r2.calls
        /\ setsDone' = <<r1.done, r2.done>>

\* a click arrives at its target: the checkbox changes its state, then the
\* listener of the target runs (93-108, 163-172, 336-345)
Click(target) ==
    /\ bubbling = "none"
    /\ pc # "meshesDone"
    /\ panelOpen' =
           CASE target = "btnMenu" -> TogglePanel("side", panelOpen)
             [] target = "btnSettings" -> TogglePanel("settings", panelOpen)
             [] target = "btnCloseSettings" -> ClosePanel("settings", panelOpen)
             [] target = "countryItem" -> ClosePanel("side", panelOpen)
             [] OTHER -> panelOpen
    /\ IF target = "countryItem"
       THEN \E i \in DOMAIN countryItems : SelectCountry(ParseInt(countryItems[i]))
       ELSE UNCHANGED <<stHighlighted, picked, notified, seen, flyTarget, flyVars>>
    /\ IF target = "btnStartQuiz" THEN StartQuiz
       ELSE UNCHANGED <<quizActive, store, calls, setsDone>>
    /\ quizModalHidden' = (target \in {"btnStartQuiz", "btnCancelQuiz"} \/ quizModalHidden)
    /\ autoRotateChecked' = IF target = "autoRotate" THEN ~autoRotateChecked
                            ELSE autoRotateChecked
    /\ inputFocused' = IsInput(target)
    /\ bubbling' = target
    /\ uiLog' = <<[kind |-> "click", target |-> target, before |-> panelOpen]>>
    /\ UNCHANGED <<pc, features, rendererVars, countriesVars, lastError, bookVars,
                   codecVars, geoVars, trigVars, initVars, countryItems, listeners,
                   subscriptions>>

\* the click listener of the document, lines 176-189; after it the change
\* event of a checkbox is dispatched
DocumentClick ==
    /\ bubbling \notin {"none", "change"}
    /\ LET afterSide ==
               IF panelOpen.side /\ ~InSidePanel(bubbling) /\ bubbling # "btnMenu"
               THEN ClosePanel("side", panelOpen) ELSE panelOpen
       IN  panelOpen' =
               IF afterSide.settings /\ ~InSettingsPanel(bubbling) /\ bubbling # "btnSettings"
               THEN ClosePanel("settings", afterSide) ELSE afterSide
    /\ bubbling' = IF bubbling = "autoRotate" THEN "change" ELSE "none"
    /\ UNCHANGED <<quizModalHidden, inputFocused, quizActive, autoRotateChecked,
                   countryItems, uiLog, engineVars, codecVars, geoVars, trigVars,
                   flyVars, initVars, storeVars>>

\* the change listener of the auto-rotate checkbox, lines 131-133:
\* state.set('globe.autoRotate', checked), on which the scene manager's
\* listener sets controls.autoRotate (part_001:72-74)
AutoRotateChange ==
    /\ bubbling = "change"
    /\ stAutoRotate' = autoRotateChecked
    /\ autoRotate' = autoRotateChecked
    /\ autoRotateSet' = (autoRotateSet \/ flights > 0)
    /\ bubbling' = "none"
    /\ UNCHANGED <<autoRotateBefore, timers, now, flights, panelOpen, quizModalHidden,
                   inputFocused, quizActive, autoRotateChecked, countryItems, uiLog,
                   engineVars, codecVars, geoVars, trigVars, initVars, storeVars>>

\* the keydown listener of the document, lines 192-218 (no modifier key
\* held)
KeyDown(key) ==
    /\ bubbling = "none"
    /\ pc # "meshesDone"
    /\ panelOpen' =
           CASE key = "Escape" -> ClosePanel("settings", ClosePanel("side", panelOpen))
             [] key = "m" /\ ~inputFocused -> TogglePanel("side", panelOpen)
             [] key = "s" /\ ~inputFocused -> TogglePanel("settings", panelOpen)
             [] OTHER -> panelOpen
    /\ quizModalHidden' =
           CASE key = "Escape" -> TRUE
             [] key = "q" /\ ~inputFocused /\ ~quizActive -> FALSE
             [] OTHER -> quizModalHidden
    /\ uiLog' = <<[kind |-> "keydown", target |-> key, before |-> panelOpen]>>
    /\ UNCHANGED <<inputFocused, bubbling, quizActive, autoRotateChecked, countryItems,
                   engineVars, codecVars, geoVars, trigVars, flyVars, initVars,
                   storeVars>>

\* endQuiz(stats), lines 498-507, which the quiz calls on the exported
\* controller: state.set('quiz.active', false)
EndQuiz ==
    /\ bubbling = "none"
    /\ pc # "meshesDone"
    /\ quizActive' = FALSE
    /\ UNCHANGED <<panelOpen, quizModalHidden, inputFocused, bubbling, autoRotateChecked,
                   countryItems, uiLog, engineVars, codecVars, geoVars, trigVars,
                   flyVars, initVars, storeVars>>

\* the events of the page, beside the one load whose countries fill the
\* list and the timers of the flights; none of them runs inside the
\* dispatch of a click
NextUi ==
    \/ bubbling = "none" /\ LoadStart
    \/ bubbling = "none" /\ LoadFetchFail
    \/ \E input \in UiBatches : bubbling = "none" /\ LoadProcess(input)
    \/ LoadRaster
    \/ RenderCountryList
    \/ \E target \in ClickTargets : Click(target)
    \/ DocumentClick
    \/ AutoRotateChange
    \/ \E key \in Keys : KeyDown(key)
    \/ EndQuiz
    \/ bubbling = "none" /\ AwaitTimer
    \/ bubbling = "none" /\ RestoreAutoRotate

SpecUi == InitUi /\ [][NextUi]_vars

(***************************************************************************)
(* Repeated loads: load() is a public method of the exported renderer, and *)
(* a call made after an earlier call has returned or thrown runs the same  *)
(* code on the fields the earlier call left.                               *)
(***************************************************************************)
\* load calls made in one run
MaxLoads == 2

ReloadBatches ==
    { <<Rec(Id7, NameAb, GeomA)>>,
      <<Rec(Id1, NameaB, GeomB)>>,
      <<Rec(Id7, NameAb, GeomA), Rec(Id1, NameaB, GeomB)>>,
      <<Rec(Id7, NameAb, GeomShallow)>>,
      <<Rec(Id7, NameAb, GeomNull)>> }

\* lines 26-30 of a second or later call
LoadAgain ==
    /\ pc \in {"done", "failed"}
    /\ loadNo < MaxLoads
    /\ pc' = "fetching"
    /\ loadNo' = loadNo + 1
    /\ stLoaded' = FALSE
    /\ notified' = <<"countries.loaded">>
    /\ seen' = <<[Snapshot("countries.loaded") EXCEPT !.loaded = FALSE]>>
    /\ UNCHANGED <<features, rendererVars, stData, stById, stByName, stHighlighted,
                   lastError, picked, publishedBy, completed, flyTarget, pureVars>>

NextReload ==
    \/ LoadStart
    \/ LoadAgain
    \/ LoadFetchFail
    \/ \E input \in ReloadBatches : LoadProcessFail(input)
    \/ \E input \in ReloadBatches : LoadProcess(input)
    \/ LoadRaster
    \/ \E uv \in UVs : Pick(uv)
    \/ \E countryId \in QueryIds : Highlight(countryId)
    \/ ClearHighlight

SpecReload == Init /\ [][NextReload]_vars

(***************************************************************************)
(* The colour codec on its own: an id is encoded as _createLookupTexture   *)
(* does (part_003:214) and the colour decoded as getCountryAtUV does       *)
(* (part_003:291).                                                         *)
(***************************************************************************)
EdgeBytes == {0, 1, 127, 128, 255}

\* ids around the byte boundaries, and every id whose three bytes are edge bytes
ByteEdgeIds ==
    {n \in {255, 256, 257, 511, 512, 4660, 65535, 65536, 65537, 1193046,
            Pow2(24) - 3, Pow2(24) - 2}
           \cup {r * 65536 + g * 256 + b : r \in EdgeBytes, g \in EdgeBytes, b \in EdgeBytes} :
        n >= 1 /\ n <= Pow2(24) - 2}

SampleIds == (1..MaxSampleId) \cup ByteEdgeIds

InitCodec ==
    /\ InitEngine
    /\ InitAppIdle
    /\ InitGeoIdle
    /\ InitTrigIdle
    /\ cPc = "start"
    /\ cId \in SampleIds
    /\ cColor = Black
    /\ cDecoded = 0

Encode ==
    /\ cPc = "start"
    /\ cColor' = IdToColor(Num(cId))
    /\ cPc' = "encoded"
    /\ UNCHANGED <<cId, cDecoded, engineVars, geoVars, trigVars, appVars>>

Decode ==
    /\ cPc = "encoded"
    /\ cDecoded' = ColorToId(cColor[1], cColor[2], cColor[3])
    /\ cPc' = "decoded"
    /\ UNCHANGED <<cId, cColor, engineVars, geoVars, trigVars, appVars>>

NextCodec == Encode \/ Decode

SpecCodec == InitCodec /\ [][NextCodec]_vars

(***************************************************************************)
(* The geometric analysis on its own: the centroid and the bounds of one   *)
(* geometry, computed in the order the map callback calls them             *)
(* (part_003:43-44).  The vertices are drawn from the corners of the       *)
(* square (0,0)..(10,10), a corner of the coordinate range and two points  *)
(* outside the range of latitudes and longitudes.                          *)
(***************************************************************************)
GeoPoints ==
    { <<0, 0>>, <<0, 10>>, <<10, 10>>, <<10, 0>>, <<-180, -90>>,
      <<200, 100>>, <<-200, -100>> }

GeoRings == UNION {[1..n -> GeoPoints] : n \in 1..MaxRingLen}

\* a second ring: the hole of a polygon, or the second polygon of a multipolygon
OtherRing == << <<20, 30>>, <<20, 40>>, <<50, 40>> >>

GeoInputs ==
    {[type |-> "Polygon", nest |-> "Polygon", polys |-> << <<r>> >>] : r \in GeoRings}
    \cup {[type |-> "Polygon", nest |-> "Polygon", polys |-> << <<r, OtherRing>> >>] :
              r \in GeoRings}
    \cup {[type |-> "MultiPolygon", nest |-> "MultiPolygon",
           polys |-> << <<r>>, <<OtherRing>> >>] : r \in GeoRings}
    \cup {GeomEmpty, GeomEmptyRing, GeomEmptyMulti, GeomNoCoords}

InitGeo ==
    /\ InitEngine
    /\ InitAppIdle
    /\ InitCodecIdle
    /\ InitTrigIdle
    /\ gPc = "start"
    /\ gGeom \in GeoInputs
    /\ gCentroid = [lat |-> <<0, 1>>, lon |-> <<0, 1>>]
    /\ gBounds = [minLat |-> 90, maxLat |-> -90, minLon |-> 180, maxLon |-> -180]

AnalyseCentroid ==
    /\ gPc = "start"
    /\ gCentroid' = CalculateCentroid(gGeom)
    /\ gPc' = "centroid"
    /\ UNCHANGED <<gGeom, gBounds, engineVars, codecVars, trigVars, appVars>>

AnalyseBounds ==
    /\ gPc = "centroid"
    /\ gBounds' = CalculateBounds(gGeom)
    /\ gPc' = "done"
    /\ UNCHANGED <<gGeom, gCentroid, engineVars, codecVars, trigVars, appVars>>

NextGeo == AnalyseCentroid \/ AnalyseBounds

SpecGeo == InitGeo /\ [][NextGeo]_vars

(***************************************************************************)
(* The projections between (lat, lon) and points in space: the camera      *)
(* target of SceneManager.flyTo (part_001:175-185), _latLonToPoint         *)
(* (part_003:187-196), GlobeRenderer.latLonToPoint and pointToLatLon        *)
(* (part_003:658-677).  Angles are multiples of 45 degrees, whose sines and *)
(* cosines lie in Q(sqrt 2): <<a, b>> stands for (a + b * sqrt 2) / 2 as a  *)
(* sine or cosine, and for (a + b * sqrt 2) / 4 as a coordinate.            *)
(* Math.PI is a double a little below pi, so Math.sin and Math.cos of a     *)
(* multiple of Math.PI / 2 are not zero where the sine or cosine of the     *)
(* angle is: Math.cos(Math.PI / 2) is u = 6.123e-17, Math.sin(Math.PI) is   *)
(* 2u, Math.cos(3 * Math.PI / 2) is -3u and Math.sin(2 * Math.PI) is -4u.   *)
(* A double is kept to the second order in u: <<a, b, c, d, e, f, s>>      *)
(* stands for (a + b * sqrt 2) / 2 + u * (c + d * sqrt 2) / 2               *)
(* + u * u * (e + f * sqrt 2) / 2 as a sine or cosine and for the same over *)
(* 4 as a coordinate.  A coordinate is a product of at most two sines and   *)
(* cosines, so that no higher power of u occurs: at lat = -90 and           *)
(* lon = -90, Math.sin(phi) * Math.cos(theta) is 2u * u, which is           *)
(* 7.5e-33 and not zero.  Where the double is a zero, s is a number with    *)
(* the sign of that zero: Math.sin(0) is +0, a product that is zero has     *)
(* the product of its factors' signs, and Math.atan2 tells +0 from -0.      *)
(***************************************************************************)
\* sin(k * 45 degrees) for k = 0 .. 7, in halves
SinTable ==
    << <<0, 0>>, <<0, 1>>, <<2, 0>>, <<0, 1>>, <<0, 0>>, <<0, -1>>, <<-2, 0>>, <<0, -1>> >>

\* the sine and cosine of d degrees, d a multiple of 45 that is >= 0
SinDeg(d) == SinTable[((d \div 45) % 8) + 1]
CosDeg(d) == SinTable[(((d \div 45) + 2) % 8) + 1]

\* the part of a double that is not a multiple of u, the multiple of u and
\* the multiple of u * u
Exact(v) == <<v[1], v[2]>>
Tiny(v) == <<v[3], v[4]>>
Second(v) == <<v[5], v[6]>>

\* Math.sin and Math.cos of d * (Math.PI / 180), d a multiple of 45 in
\* 0 .. 360, in halves
MathSin(d) ==
    <<SinDeg(d)[1], SinDeg(d)[2], IF d = 180 THEN 4 ELSE IF d = 360 THEN -8 ELSE 0, 0,
      0, 0, 1>>
MathCos(d) ==
    <<CosDeg(d)[1], CosDeg(d)[2], IF d = 90 THEN 2 ELSE IF d = 270 THEN -6 ELSE 0, 0,
      0, 0, 1>>

\* the product of two values in halves, in quarters
MulHalves(u, v) == <<u[1] * v[1] + 2 * u[2] * v[2], u[1] * v[2] + u[2] * v[1]>>

\* the sign of a + b * sqrt 2
SignQ(u) ==
    LET a == u[1]
        b == u[2]
    IN  IF a = 0 /\ b = 0 THEN 0
        ELSE IF a >= 0 /\ b >= 0 THEN 1
        ELSE IF a <= 0 /\ b <= 0 THEN -1
        ELSE IF a > 0 THEN (IF a * a > 2 * b * b THEN 1 ELSE -1)
        ELSE (IF a * a > 2 * b * b THEN -1 ELSE 1)

\* the power of u a double starts with, 3 for zero, and its part of order k
Order(v) ==
    IF SignQ(Exact(v)) # 0 THEN 0
    ELSE IF SignQ(Tiny(v)) # 0 THEN 1
    ELSE IF SignQ(Second(v)) # 0 THEN 2
    ELSE 3
Part(v, k) == <<v[2 * k + 1], v[2 * k + 2]>>

\* the sign of a double: that of the part it starts with
SignDouble(v) == IF Order(v) = 3 THEN 0 ELSE SignQ(Part(v, Order(v)))

\* the sign of a double, a zero included
SignOf(v) == IF SignDouble(v) # 0 THEN SignDouble(v) ELSE IF v[7] > 0 THEN 1 ELSE -1

\* the product of two doubles in halves, in quarters
MulDoubles(u, v) ==
    LET exact == MulHalves(Exact(u), Exact(v))
        ut == MulHalves(Exact(u), Tiny(v))
        tu == MulHalves(Tiny(u), Exact(v))
        tt == MulHalves(Tiny(u), Tiny(v))
        us == MulHalves(Exact(u), Second(v))
        su == MulHalves(Second(u), Exact(v))
    IN  <<exact[1], exact[2], ut[1] + tu[1], ut[2] + tu[2],
          tt[1] + us[1] + su[1], tt[2] + us[2] + su[2], SignOf(u) * SignOf(v)>>

\* a value in halves, in quarters; a factor keeps or turns the sign of a zero
HalfToQuarter(u) == [i \in DOMAIN u |-> 2 * u[i]]

ScaleQ(k, u) == [i \in DOMAIN u |-> k * u[i]]
NegQ(u) == [i \in DOMAIN u |-> -u[i]]

\* the product of two coordinates, up to the positive factor 1/16
MulQ(u, v) == <<u[1] * v[1] + 2 * u[2] * v[2], u[1] * v[2] + u[2] * v[1]>>
AddQ(u, v) == <<u[1] + v[1], u[2] + v[2]>>

\* phi = (90 - lat) * PI / 180 and theta = (lon + 180) * PI / 180, in degrees
Phi(lat) == 90 - lat
Theta(lon) == lon + 180

\* the target position of SceneManager.flyTo at camera distance `distance`
FlyToTarget(lat, lon, distance) ==
    << ScaleQ(distance, MulDoubles(MathSin(Phi(lat)), MathCos(Theta(lon)))),
       ScaleQ(distance, HalfToQuarter(MathCos(Phi(lat)))),
       ScaleQ(distance, MulDoubles(MathSin(Phi(lat)), MathSin(Theta(lon)))) >>

\* CountryRenderer._latLonToPoint
LatLonToPointBorder(lat, lon, radius) ==
    << NegQ(ScaleQ(radius, MulDoubles(MathSin(Phi(lat)), MathCos(Theta(lon))))),
       ScaleQ(radius, HalfToQuarter(MathCos(Phi(lat)))),
       ScaleQ(radius, MulDoubles(MathSin(Phi(lat)), MathSin(Theta(lon)))) >>

\* GlobeRenderer.latLonToPoint
LatLonToPoint(lat, lon) ==
    << NegQ(ScaleQ(GlobeRadius, MulDoubles(MathSin(Phi(lat)), MathCos(Theta(lon))))),
       ScaleQ(GlobeRadius, HalfToQuarter(MathCos(Phi(lat)))),
       ScaleQ(GlobeRadius, MulDoubles(MathSin(Phi(lat)), MathSin(Theta(lon)))) >>

TrigRadii == {1, 2}

\* the squared length of a point, in sixteenths, up to multiples of u
LengthSq(p) ==
    AddQ(AddQ(MulQ(Exact(p[1]), Exact(p[1])), MulQ(Exact(p[2]), Exact(p[2]))),
         MulQ(Exact(p[3]), Exact(p[3])))

\* Vector3.normalize, for a point at a whole distance from the origin
Normalize(p) ==
    LET k == CHOOSE n \in TrigRadii : LengthSq(p) = <<16 * n * n, 0>>
    IN  [i \in 1..3 |-> [j \in 1..7 |-> IF j = 7 THEN p[i][j] ELSE p[i][j] \div k]]

\* Math.acos(c) * 180 / PI for c within a multiple of u of the cosine of a
\* multiple of 45 degrees
AcosDeg(c) == CHOOSE d \in {0, 45, 90, 135, 180} : HalfToQuarter(CosDeg(d)) = Exact(c)

\* the angle of the direction (x, y), x and y not both zero
DirectionDeg(y, x) ==
    {d \in {-135, -90, -45, 0, 45, 90, 135, 180} :
        /\ MulQ(y, CosDeg(d + 360)) = MulQ(x, SinDeg(d + 360))
        /\ SignQ(AddQ(MulQ(x, CosDeg(d + 360)), MulQ(y, SinDeg(d + 360)))) = 1}

\* Math.atan2(y, x) * 180 / PI.  Two doubles of the same order in u have the
\* direction of their leading parts.  Where y is of a higher order than x
\* or a zero, the angle is 0 for x > 0 or +0 and, for x < 0 or -0, 180 or
\* -180 by the sign of y; where x is of the higher order or a zero, the
\* angle is 90 or -90.
Atan2Deg(y, x) ==
    IF Order(y) = Order(x) /\ Order(y) < 3
    THEN DirectionDeg(Part(y, Order(y)), Part(x, Order(x)))
    ELSE IF Order(y) < Order(x) THEN {90 * SignDouble(y)}
    ELSE IF SignOf(x) = 1 THEN {0}
    ELSE {180 * SignOf(y)}

\* GlobeRenderer.pointToLatLon: the (lat, lon) it can return
PointToLatLon(point) ==
    LET normalized == Normalize(point)
    IN  {[lat |-> 90 - AcosDeg(normalized[2]), lon |-> lon] :
            lon \in Atan2Deg(normalized[3], NegQ(normalized[1]))}

TrigLats == {-90, -45, 0, 45, 90}
TrigLons == {-180, -135, -90, -45, 0, 45, 90, 135, 180}

InitTrig ==
    /\ InitEngine
    /\ InitAppIdle
    /\ InitCodecIdle
    /\ InitGeoIdle
    /\ tPc = "start"
    /\ tLat \in TrigLats
    /\ tLon \in TrigLons
    /\ tRadius \in TrigRadii
    /\ tCamera = NoPoint
    /\ tBorder = NoPoint
    /\ tGlobe = NoPoint
    /\ tBack = <<>>

\* the three projections of (tLat, tLon), the camera at distance tRadius
ProjectAll ==
    /\ tPc = "start"
    /\ tCamera' = FlyToTarget(tLat, tLon, tRadius)
    /\ tBorder' = LatLonToPointBorder(tLat, tLon, tRadius)
    /\ tGlobe' = LatLonToPoint(tLat, tLon)
    /\ tPc' = "projected"
    /\ UNCHANGED <<tLat, tLon, tRadius, tBack, engineVars, codecVars, geoVars, appVars>>

\* pointToLatLon of the point latLonToPoint gave
Unproject ==
    /\ tPc = "projected"
    /\ \E back \in PointToLatLon(tGlobe) : tBack' = <<back>>
    /\ tPc' = "unprojected"
    /\ UNCHANGED <<tLat, tLon, tRadius, tCamera, tBorder, tGlobe, engineVars,
                   codecVars, geoVars, appVars>>

NextTrig == ProjectAll \/ Unproject

SpecTrig == InitTrig /\ [][NextTrig]_vars

(***************************************************************************)
(* Camera flights: SceneManager.flyTo (part_001:175-213) disables          *)
(* auto-rotation and sets a timer that restores what it saw.  Time is      *)
(* counted in units of 100 ms; timers fire in the order of their due       *)
(* times, and those due at the same time in the order of their creation.   *)
(***************************************************************************)
\* the time up to which a flight may start
FlyHorizon == 12

\* the duration of the flight of resetView (part_001:219), in units of 100 ms
ResetViewDuration == 8

\* the (lat, lon) flyTo is called with at its default duration
FlyTargets == {[lat |-> <<45, 1>>, lon |-> <<45, 1>>], [lat |-> <<0, 1>>, lon |-> <<0, 1>>]}

\* controls.autoRotate is state.globe.autoRotate at init (part_001:62), the
\* user's setting
InitFly ==
    /\ InitEngine
    /\ InitCodecIdle
    /\ InitGeoIdle
    /\ InitTrigIdle
    /\ InitInitIdle
    /\ InitUiIdle
    /\ InitStoreIdle
    /\ autoRotate \in BOOLEAN
    /\ stAutoRotate = autoRotate
    /\ autoRotateBefore = autoRotate
    /\ autoRotateSet = FALSE
    /\ timers = <<>>
    /\ now = 0
    /\ flights = 0

\* sceneManager.flyTo(lat, lon, duration) called from outside the renderer
FlyTo(lat, lon, duration) ==
    /\ flights < MaxFlights
    /\ now <= FlyHorizon
    /\ SceneFlyTo(lat, lon, duration)
    /\ UNCHANGED <<countryRendererVars, notFlightVars>>

\* SceneManager.resetView, part_001:218-220
ResetView == FlyTo(<<20, 1>>, <<0, 1>>, ResetViewDuration)

\* state.set('globe.autoRotate', value), which the change listener of the
\* auto-rotate checkbox calls (uiController.js:131-132): the subscription of
\* SceneManager.init (part_001:72-74) writes the value to controls.autoRotate
SetAutoRotate(value) ==
    /\ stAutoRotate' = value
    /\ autoRotate' = value
    /\ autoRotateSet' = (autoRotateSet \/ flights > 0)
    /\ UNCHANGED <<autoRotateBefore, timers, now, flights, notFlyVars>>

\* 100 ms pass; a timer that is due fires first
Tick ==
    /\ \A i \in 1..Len(timers) : timers[i].due > now
    /\ timers # <<>> \/ now < FlyHorizon
    /\ now' = now + 1
    /\ UNCHANGED <<autoRotate, stAutoRotate, autoRotateBefore, autoRotateSet, timers, flights,
                   notFlyVars>>

NextFly ==
    \/ \E target \in FlyTargets : FlyTo(target.lat, target.lon, DefaultFlyDuration)
    \/ ResetView
    \/ \E value \in BOOLEAN : SetAutoRotate(value)
    \/ RestoreAutoRotate
    \/ Tick

SpecFly == InitFly /\ [][NextFly]_vars

(***************************************************************************)
(* The store and its listeners (StateManager, src/src/core/state.js:       *)
(* 105-159, 212-237).  The callbacks of the model leave the store and the  *)
(* listeners alone.                                                        *)
(***************************************************************************)
\* subscribe calls made in one run
MaxSubscriptions == 2

Callbacks == {"cbA", "cbB"}
StoreValues == {0, 1}

InitStore ==
    /\ InitEngine
    /\ InitCodecIdle
    /\ InitGeoIdle
    /\ InitTrigIdle
    /\ InitFlyIdle
    /\ InitInitIdle
    /\ InitUiIdle
    /\ InitStoreIdle

notStoreVars == <<engineVars, codecVars, geoVars, trigVars, flyVars, initVars, uiVars>>

\* subscribe(path, callback)
Subscribe(path, cb) ==
    /\ Len(subscriptions) < MaxSubscriptions
    /\ listeners' = [listeners EXCEPT ![path] = SetAdd(@, cb)]
    /\ subscriptions' =
           Append(subscriptions, [path |-> path, cb |-> cb, unsubscribed |-> FALSE])
    /\ setsDone' = <<>>
    /\ calls' = <<>>
    /\ UNCHANGED <<store, notStoreVars>>

\* the function the i-th subscribe call returned
Unsubscribe(i) ==
    /\ i \in DOMAIN subscriptions
    /\ listeners' =
           [listeners EXCEPT ![subscriptions[i].path] = SetDelete(@, subscriptions[i].cb)]
    /\ subscriptions' = [subscriptions EXCEPT ![i].unsubscribed = TRUE]
    /\ setsDone' = <<>>
    /\ calls' = <<>>
    /\ UNCHANGED <<store, notStoreVars>>

\* set(path, value)
StateSet(path, value) ==
    LET r == StoreSet(store, listeners, path, value)
    IN  /\ store' = r.store
        /\ calls' = r.calls
        /\ setsDone' = <<r.done>>
        /\ UNCHANGED <<listeners, subscriptions, notStoreVars>>

\* update({p1: v1, p2: v2}): one set per entry, in the order of the entries
StateUpdate(p1, v1, p2, v2) ==
    /\ p1 # p2
    /\ LET r1 == StoreSet(store, listeners, p1, v1)
           r2 == StoreSet(r1.store, listeners, p2, v2)
       IN  /\ store' = r2.store
           /\ calls' = r1.calls \o r2.calls
           /\ setsDone' = <<r1.done, r2.done>>
    /\ UNCHANGED <<listeners, subscriptions, notStoreVars>>

\* resetQuiz() (state.js:213-236): a new quiz object, not active, with score
\* 0 and streak 0, countries.highlighted = null by assignment, without a notification,
\* then _notify('quiz', quiz, null); countries.found, which it clears, is
\* read by nothing that is followed here
ResetQuiz ==
    LET after == [store EXCEPT !["quiz.score"] = 0, !["quiz.streak"] = 0]
    IN  /\ store' = after
        /\ quizActive' = FALSE
        /\ stHighlighted' = <<>>
        /\ calls' = ListenerCalls(listeners, "quiz", StoreGet(after, "quiz"), TRUE, 0, "quiz")
        /\ setsDone' = <<>>
        /\ UNCHANGED <<listeners, subscriptions, pc, features, rendererVars, countriesVars,
                       lastError, picked, bookVars, notified, seen, flyTarget,
                       codecVars, geoVars, trigVars, flyVars, initVars, panelOpen,
                       quizModalHidden, inputFocused, bubbling, autoRotateChecked,
                       countryItems, uiLog>>

NextStore ==
    \/ \E path \in AllPaths, cb \in Callbacks : Subscribe(path, cb)
    \/ \E i \in 1..MaxSubscriptions : Unsubscribe(i)
    \/ \E path \in LeafPaths, value \in StoreValues : StateSet(path, value)
    \/ \E p1 \in LeafPaths, p2 \in LeafPaths, v1 \in StoreValues, v2 \in StoreValues :
          StateUpdate(p1, v1, p2, v2)
    \/ ResetQuiz

SpecStore == InitStore /\ [][NextStore]_vars

(***************************************************************************)
(* Properties.                                                             *)
(***************************************************************************)
\* the outer ring of each polygon of a geometry
OuterRings(g) == [i \in 1..Len(g.polys) |-> g.polys[i][1]]

\* the centre of pixel p and four points just inside its corners
SamplePoints(p) ==
    {<<CentreX(p), CentreY(p)>>}
    \cup {<<720 * p[1] + dx, 720 * p[2] + dy>> : dx \in {1, 719}, dy \in {1, 719}}

\* pixel p lies strictly inside an outer ring of country c
StrictlyInside(c, p) ==
    \E i \in 1..Len(OuterRings(c.geometry)) :
        \A q \in SamplePoints(p) : PointInRing(OuterRings(c.geometry)[i], q[1], q[2])

\* some part of pixel p lies inside an outer ring of country c
Touches(c, p) ==
    \E i \in 1..Len(OuterRings(c.geometry)) :
        \E q \in SamplePoints(p) : PointInRing(OuterRings(c.geometry)[i], q[1], q[2])

UvPoint(uv) == <<PixelX(uv), PixelY(uv)>>

Loaded == pc = "done"

\* C1: after a successful load, getCountryAtUV at a pixel strictly inside the
\* outer ring of feature f and inside no other feature returns a feature with
\* f's id, and at a pixel no feature covers it returns none, whatever ids
\* ingestion assigned.
C1_PickInsideReturnsFeature ==
    Loaded =>
        \A uv \in UVs :
            UvPoint(uv) \in Pixels =>
                /\ \A i \in 1..Len(countryData) :
                       ( /\ StrictlyInside(countryData[i], UvPoint(uv))
                         /\ \A j \in (1..Len(countryData)) \ {i} :
                                ~Touches(countryData[j], UvPoint(uv)) )
                       => /\ GetCountryAtUV(uv) # <<>>
                          /\ GetCountryAtUV(uv)[1].id = countryData[i].id
                /\ (\A i \in 1..Len(countryData) : ~Touches(countryData[i], UvPoint(uv)))
                       => GetCountryAtUV(uv) = <<>>

\* C2: when load has failed, at whatever step, state.countries holds nothing
\* of the failed batch and countries.loaded is not true.
C2_FailedLoadPublishesNothing ==
    pc = "failed" =>
        /\ stLoaded = FALSE
        /\ stData = <<>>
        /\ stById = <<>>
        /\ stByName = <<>>

\* C3: after a load that completed, no two published features share an id and
\* the id index has one entry per feature (an input that would give two
\* features one id makes load fail instead).
C3_PublishedIdsUnique ==
    Loaded =>
        /\ \A i, j \in 1..Len(stData) : stData[i].id = stData[j].id => i = j
        /\ Len(stById) = Len(stData)

DeclaredOutOfRange(rec) == rec.id.t = "number" /\ rec.id.n >= Pow2(24) - 1

\* C4: a load of an input with a declared id >= 2^24 - 1 fails: it never
\* returns with the batch published and queryable.
C4_OutOfRangeIdFailsLoad ==
    (\E i \in 1..Len(features) : DeclaredOutOfRange(features[i])) => pc # "done"

\* C5: after a successful load no published feature has id 0, the value of
\* the no-feature sentinel colour.
C5_NoFeatureHasIdZero ==
    Loaded => \A i \in 1..Len(stData) : stData[i].id # Num(0)

\* C6: whenever the pixel getCountryAtUV reads at (u, v) is (0,0,0), it
\* returns none, whatever features are loaded.
C6_SentinelPixelReturnsNone ==
    /\ \A uv \in UVs :
           (lookupCanvas # <<>> /\ UvPixel(uv) = Black) => GetCountryAtUV(uv) = <<>>
    /\ (picked.op = "getCountryAtUV" /\ picked.pixel = Black) => picked.result = <<>>

\* a sentinel pixel has been picked while a feature with id 0 is in the index
C6_Witness ==
    /\ Loaded
    /\ picked.op = "getCountryAtUV"
    /\ picked.pixel = Black
    /\ picked.result = <<>>
    /\ MapHas(stById, Num(0))

\* C7: for an id in [1, 2^24 - 2], decoding the colour that encodes it gives
\* the id back, the colour being r = (id >> 16) & 0xFF, g = (id >> 8) & 0xFF,
\* b = id & 0xFF.
C7_DecodeEncodeRoundTrip ==
    cPc = "decoded" =>
        /\ cDecoded = cId
        /\ cColor = <<BitAnd(Shr(cId, 16), 255), BitAnd(Shr(cId, 8), 255), BitAnd(cId, 255)>>

\* the largest valid id, with all three bytes in use, has made the round trip
C7_Witness == cPc = "decoded" /\ cId = Pow2(24) - 2 /\ cDecoded = cId /\ cColor[2] = 255

\* C8: a query returns a feature only of a dataset whose load call has run
\* through all of its steps.
C8_NoQueryBeforeLoadCompletes ==
    picked.result # <<>> => publishedBy \in completed

RECURSIVE CaseVariants(_)
\* every upper/lower-case variant of a string
CaseVariants(s) ==
    IF s = <<>> THEN {<<>>}
    ELSE {<<c>> \o v : c \in {LowerChar(Head(s)), UpperChar(Head(s))},
                       v \in CaseVariants(Tail(s))}

\* C9: every id of a feature returned by load resolves through the id index
\* to a feature with that id, and every upper/lower-case variant of every
\* feature name, the name itself among them, resolves through the name index
\* (countries.byName, a Map read with get) to the feature with that name.
C9_IndexTotality ==
    Loaded =>
        \A i \in 1..Len(countryData) :
            /\ LET byId == MapGet(stById, countryData[i].id)
               IN  byId # <<>> /\ byId[1].id = countryData[i].id
            /\ \A v \in CaseVariants(countryData[i].name.s) :
                   LET byName == MapGet(stByName, Str(v))
                   IN  /\ byName # <<>>
                       /\ byName[1].name = countryData[i].name

\* a declared id is valid when it is in [1, 2^24 - 2]
DeclaredValid(v) == Truthy(v) /\ ToNumber(v) >= 1 /\ ToNumber(v) <= Pow2(24) - 2

\* C10: a feature's id is the record's declared id when that is present and
\* valid, and otherwise the record's zero-based position in the input.
C10_IdDeclaredOrIndex ==
    Loaded =>
        \A i \in 1..Len(countryData) :
            countryData[i].id =
                IF DeclaredValid(features[i].id) THEN features[i].id ELSE Num(i - 1)

\* a declared name that is present and not the empty string
NamePresent(v) == v.t = "string" /\ v.s # <<>>

\* the string s ends with the string t
HasSuffix(s, t) == Len(t) <= Len(s) /\ SubSeq(s, Len(s) - Len(t) + 1, Len(s)) = t

\* C11: the name of each feature load has published is the record's declared
\* name when that is present and non-empty, and otherwise a placeholder that
\* ends with the decimal digits of the record's index; so every published
\* name is a non-empty string and two unnamed records get different names.
C11_NameDeclaredOrPlaceholder ==
    stLoaded =>
        /\ \A i \in 1..Len(stData) :
               /\ stData[i].name.t = "string"
               /\ stData[i].name.s # <<>>
               /\ IF NamePresent(features[i].name)
                  THEN stData[i].name = features[i].name
                  ELSE HasSuffix(stData[i].name.s, DecStr(i - 1))
        /\ \A i, j \in 1..Len(stData) :
               ( /\ i # j
                 /\ ~NamePresent(features[i].name)
                 /\ ~NamePresent(features[j].name) )
               => stData[i].name # stData[j].name

\* a record without a name and a record with an empty name have been loaded
\* and carry the placeholders of their indices
C11_Witness ==
    /\ Loaded
    /\ Len(stData) = 2
    /\ features[1].name = Undef
    /\ features[2].name = NameEmpty
    /\ stData[1].name = Str(CountryPrefix \o <<"0">>)
    /\ stData[2].name = Str(CountryPrefix \o <<"1">>)

\* C12: a call of getCountryAtUV, for any uv and in any state, leaves the
\* feature list, the lookup raster, the border group, the id and name indices
\* and every field of state.countries unchanged and notifies no listener.
C12_GetCountryAtUVIsPureRead ==
    [][(pc' = pc /\ picked' # picked /\ picked'.op = "getCountryAtUV") =>
           /\ UNCHANGED <<features, rendererVars, countriesVars, stHighlighted>>
           /\ notified' = <<>>]_vars

\* getCountryAtUV has returned a feature while a country is highlighted, and
\* the highlight and the published data are as they were
C12_Witness ==
    /\ Loaded
    /\ picked.op = "getCountryAtUV"
    /\ picked.result # <<>>
    /\ stHighlighted # <<>>
    /\ stLoaded
    /\ stData = countryData
    /\ notified = <<>>

\* C13: once dispose has discarded a loaded dataset, no getCountryAtUV call
\* and no lookup by id or by name returns a feature of it.
C13_DisposeReleasesEverything ==
    lookupTexture = "disposed" =>
        /\ \A uv \in UVs : GetCountryAtUV(uv) = <<>>
        /\ \A i \in 1..Len(features) :
               /\ MapGet(stById, FeatureId(features[i], i - 1)) = <<>>
               /\ MapGet(stByName, Str(ToLowerCase(FeatureName(features[i], i - 1).s))) = <<>>
        /\ (picked.op \in {"getCountryAtUV", "highlight"} => picked.result = <<>>)

\* where the vertices of a geometry stand: <<polygon, ring, vertex>>
Positions(g) ==
    UNION {UNION {{<<i, j, k>> : k \in 1..Len(g.polys[i][j])} :
                  j \in 1..Len(g.polys[i])} :
           i \in 1..Len(g.polys)}

VertexAt(g, pos) == g.polys[pos[1]][pos[2]][pos[3]]

RECURSIVE SumOver(_, _, _)
\* the sum of coordinate c (1: lon, 2: lat) of the vertices at the positions S
SumOver(g, S, c) ==
    IF S = {} THEN 0
    ELSE LET pos == CHOOSE q \in S : TRUE
         IN  VertexAt(g, pos)[c] + SumOver(g, S \ {pos}, c)

\* every vertex is a latitude in [-90, 90] and a longitude in [-180, 180]
GeoInRange(g) ==
    \A pos \in Positions(g) :
        /\ VertexAt(g, pos)[1] >= -180 /\ VertexAt(g, pos)[1] <= 180
        /\ VertexAt(g, pos)[2] >= -90 /\ VertexAt(g, pos)[2] <= 90

\* the square of Scenario A
SquareRing == << <<0, 0>>, <<0, 10>>, <<10, 10>>, <<10, 0>> >>
SquareGeom == [type |-> "Polygon", nest |-> "Polygon", polys |-> << <<SquareRing>> >>]

\* the centroid of g is the mean of its vertices over all rings of all
\* polygons, each listed vertex counted once, lat from the latitudes and lon
\* from the longitudes
CentroidIsMean(g, centroid) ==
    LET S == Positions(g)
        n == Cardinality(S)
    IN  /\ centroid.lat[2] > 0
        /\ centroid.lon[2] > 0
        /\ centroid.lat[1] * n = SumOver(g, S, 2) * centroid.lat[2]
        /\ centroid.lon[1] * n = SumOver(g, S, 1) * centroid.lon[2]

\* the bounds are the least and greatest latitude and longitude among the
\* vertices of g
BoundsAreExtremes(g, bounds) ==
    LET S == Positions(g)
    IN  /\ \A pos \in S :
               /\ bounds.minLat <= VertexAt(g, pos)[2]
               /\ VertexAt(g, pos)[2] <= bounds.maxLat
               /\ bounds.minLon <= VertexAt(g, pos)[1]
               /\ VertexAt(g, pos)[1] <= bounds.maxLon
        /\ \E pos \in S : VertexAt(g, pos)[2] = bounds.minLat
        /\ \E pos \in S : VertexAt(g, pos)[2] = bounds.maxLat
        /\ \E pos \in S : VertexAt(g, pos)[1] = bounds.minLon
        /\ \E pos \in S : VertexAt(g, pos)[1] = bounds.maxLon

\* the bounds are the least and greatest latitude and longitude among the
\* vertices of g and the values the running minima and maxima start from
BoundsAreSeededExtremes(g, bounds) ==
    LET lats == {VertexAt(g, pos)[2] : pos \in Positions(g)}
        lons == {VertexAt(g, pos)[1] : pos \in Positions(g)}
    IN  /\ bounds.minLat \in lats \cup {90}
        /\ \A x \in lats \cup {90} : bounds.minLat <= x
        /\ bounds.maxLat \in lats \cup {-90}
        /\ \A x \in lats \cup {-90} : x <= bounds.maxLat
        /\ bounds.minLon \in lons \cup {180}
        /\ \A x \in lons \cup {180} : bounds.minLon <= x
        /\ bounds.maxLon \in lons \cup {-180}
        /\ \A x \in lons \cup {-180} : x <= bounds.maxLon

\* the square (0,0),(0,10),(10,10),(10,0) has centroid (5,5) and bounds
\* (0,10,0,10)
SquareExample ==
    gGeom = SquareGeom =>
        /\ gCentroid.lat[1] = 5 * gCentroid.lat[2]
        /\ gCentroid.lon[1] = 5 * gCentroid.lon[2]
        /\ gBounds = [minLat |-> 0, maxLat |-> 10, minLon |-> 0, maxLon |-> 10]

\* C14 as stated: for every geometry with at least one vertex, the centroid
\* is the mean of the vertices and the bounds are exactly the least and
\* greatest latitude and longitude among the vertices.
C14_CentroidIsMeanBoundsAreExtremes ==
    (gPc = "done" /\ Positions(gGeom) # {}) =>
        /\ CentroidIsMean(gGeom, gCentroid)
        /\ BoundsAreExtremes(gGeom, gBounds)
        /\ SquareExample

\* C14 as amended: for every geometry with at least one vertex the centroid
\* is the mean of the vertices; the bounds are exactly the least and
\* greatest latitude and longitude among the vertices together with the
\* values the running minima and maxima start from (90, -90, 180, -180),
\* hence among the vertices alone when every vertex has its latitude in
\* [-90, 90] and its longitude in [-180, 180].
C14_BoundsAreExtremesInRange ==
    (gPc = "done" /\ Positions(gGeom) # {}) =>
        /\ CentroidIsMean(gGeom, gCentroid)
        /\ BoundsAreSeededExtremes(gGeom, gBounds)
        /\ GeoInRange(gGeom) => BoundsAreExtremes(gGeom, gBounds)
        /\ SquareExample

\* a multipolygon whose first ring is one corner of the coordinate range has
\* been analysed: the mean runs over the vertices of both polygons
C14_Witness ==
    /\ gPc = "done"
    /\ gGeom.type = "MultiPolygon"
    /\ gGeom.polys[1][1] = << <<-180, -90>> >>
    /\ gCentroid = [lat |-> <<20, 4>>, lon |-> <<-90, 4>>]
    /\ gBounds = [minLat |-> -90, maxLat |-> 40, minLon |-> -180, maxLon |-> 50]

\* C15: for a geometry with at least one vertex, whatever the coordinate
\* values, the computed bounds have minLat <= maxLat and minLon <= maxLon.
C15_BoundsOrdered ==
    (gPc = "done" /\ Positions(gGeom) # {}) =>
        /\ gBounds.minLat <= gBounds.maxLat
        /\ gBounds.minLon <= gBounds.maxLon

\* the bounds of a single vertex outside the range of latitudes and
\* longitudes have been computed
C15_Witness ==
    /\ gPc = "done"
    /\ gGeom.polys = << << << <<200, 100>> >> >> >>
    /\ gBounds = [minLat |-> 90, maxLat |-> 100, minLon |-> 180, maxLon |-> 200]

\* the fill of ring 0 of some polygon of country c covers a part of pixel p
FillTouches(c, p) ==
    \E i \in 1..Len(DrawnRings(c.geometry)) : Coverage(DrawnRings(c.geometry)[i], p) > 0

\* the fill of ring 0 of some polygon of country c covers pixel p entirely
FillCovers(c, p) ==
    \E i \in 1..Len(DrawnRings(c.geometry)) :
        Coverage(DrawnRings(c.geometry)[i], p) = SubCount

\* the features whose fills reach pixel p, by position
FillersOf(p) == {i \in 1..Len(countryData) : FillTouches(countryData[i], p)}

LastOf(S) == CHOOSE i \in S : \A j \in S : j <= i

\* C16: after a load, every pixel that the fills of two or more features
\* reach holds the colour of the latest of them in ingestion order, and
\* getCountryAtUV there returns a feature with that latest feature's id.
C16_LastIngestedWinsSharedPixels ==
    Loaded =>
        \A p \in Pixels :
            Cardinality(FillersOf(p)) >= 2 =>
                LET last == countryData[LastOf(FillersOf(p))]
                IN  /\ lookupCanvas[1][p] = IdToColor(last.id)
                    /\ GetCountryAtPixel(p[1], p[2]) # <<>>
                    /\ GetCountryAtPixel(p[1], p[2])[1].id = last.id

\* the value of an id is in the valid range [1, 2^24 - 2]
IdInRange(v) == Truthy(v) /\ ToNumber(v) >= 1 /\ ToNumber(v) <= Pow2(24) - 2

\* C17: after a successful load, for every feature with an id in the valid
\* range whose fill covers at least one pixel, getCountryAtUV returns a
\* feature with that id at some (u, v); every pixel (x, y) of the raster is
\* the one read at u = (x + 1/2) / width, v = 1 - (y + 1/2) / height.
C17_RasterizedFeatureIsPickable ==
    Loaded =>
        \A i \in 1..Len(countryData) :
            ( /\ IdInRange(countryData[i].id)
              /\ \E p \in Pixels : FillCovers(countryData[i], p) )
            => \E p \in Pixels :
                   /\ GetCountryAtPixel(p[1], p[2]) # <<>>
                   /\ GetCountryAtPixel(p[1], p[2])[1].id = countryData[i].id

\* C18: a call of getCountryAtUV that matches no feature (no raster yet, a
\* sentinel pixel, a decoded id the index does not hold) returns null and
\* does not throw, and a call of highlight or flyToCountry with an id the
\* index does not hold returns without throwing: nothing is reported as a
\* failure.
C18_NoMatchIsNotAFailure ==
    [][(picked' # picked /\ pc' = pc) =>
           /\ ( /\ picked'.op = "getCountryAtUV"
                /\ \/ lookupCanvas = <<>>
                   \/ picked'.pixel = Black
                   \/ ~MapHas(stById, Num(ColorToId(picked'.pixel[1], picked'.pixel[2],
                                                    picked'.pixel[3]))) )
              => (picked'.result = <<>> /\ ~picked'.threw /\ lastError' = lastError)
           /\ ( /\ picked'.op \in {"highlight", "flyToCountry"}
                /\ ~MapHas(stById, picked'.arg) )
              => (picked'.result = <<>> /\ ~picked'.threw /\ lastError' = lastError)]_vars

\* after a flight to a known country, flyToCountry with an id the index does
\* not hold has returned and left the flight as it was
C18_Witness ==
    /\ Loaded
    /\ picked.op = "flyToCountry"
    /\ ~MapHas(stById, picked.arg)
    /\ picked.result = <<>>
    /\ ~picked.threw
    /\ flyTarget # <<>>

\* two points with the same coordinates, -0 being 0
SamePoint(p, q) == \A i \in 1..3 : \A j \in 1..6 : p[i][j] = q[i][j]

\* C19: for equal (lat, lon, radius) the camera target of SceneManager.flyTo
\* and the point of CountryRenderer._latLonToPoint are the same point, and at
\* the globe's radius both are the point of GlobeRenderer.latLonToPoint: x,
\* y and z have the same signs at every call site.
C19_OneSignConvention ==
    tPc \in {"projected", "unprojected"} =>
        /\ SamePoint(tCamera, tBorder)
        /\ \A i \in 1..3 : SignDouble(tCamera[i]) = SignDouble(tGlobe[i])
        /\ \A i \in 1..3 : SignDouble(tBorder[i]) = SignDouble(tGlobe[i])
        /\ tRadius = GlobeRadius => (SamePoint(tBorder, tGlobe) /\ SamePoint(tCamera, tGlobe))

\* C20: for lat in (-90, 90) and lon in (-180, 180), pointToLatLon of the
\* point latLonToPoint gives for (lat, lon) is (lat, lon).
C20_UnprojectInvertsProject ==
    ( /\ tPc = "unprojected"
      /\ tLat > -90 /\ tLat < 90
      /\ tLon > -180 /\ tLon < 180 )
    => tBack = <<[lat |-> tLat, lon |-> tLon]>>

RECURSIVE ExpectedLines(_)
\* one entry per ring of every polygon of every country, in order: the ring
\* and the id of the country it belongs to
ExpectedLines(countries) ==
    IF countries = <<>> THEN <<>>
    ELSE [k \in 1..Len(AllRings(Head(countries).geometry)) |->
             [ring |-> AllRings(Head(countries).geometry)[k], owner |-> Head(countries).id]]
         \o ExpectedLines(Tail(countries))

\* C21: after a load, the border group holds exactly one polyline per ring of
\* every polygon of every feature, in order; its points are the ring's
\* vertices in ring order, projected at a radius above the globe's, and it
\* carries the id of the feature that owns it.
C21_OneTaggedLinePerRing ==
    Loaded =>
        LET lines == bordersGroup[1].lines
            expected == ExpectedLines(countryData)
        IN  /\ Len(lines) = Len(expected)
            /\ \A k \in 1..Len(lines) :
                   /\ lines[k].points = expected[k].ring
                   /\ lines[k].radiusMilli > 1000 * GlobeRadius
                   /\ lines[k].userData = <<expected[k].owner>>

\* a geometry object without a single vertex
ZeroVertex(g) == g.type # "null" /\ AllPoints(g) = <<>>

\* a geometry with vertices, nested as its type says
WellFormed(g) == g.type \in {"Polygon", "MultiPolygon"} /\ g.nest = g.type /\ AllPoints(g) # <<>>

\* the countries of a list that have a vertex
WithVertices(countries) == SelectSeq(countries, LAMBDA c : ~ZeroVertex(c.geometry))

\* C22: a load whose input holds features without a vertex (coordinates
\* empty or absent) next to well-formed ones does not fail: each such feature
\* gets centroid (0, 0) and the bounds (90, -90, 180, -180), and the others
\* are processed as if it were not there (same record, same border lines,
\* same raster).
C22_ZeroVertexFeatureLoads ==
    ( /\ features # <<>>
      /\ \E i \in 1..Len(features) : ZeroVertex(features[i].geometry)
      /\ \A i \in 1..Len(features) :
             ZeroVertex(features[i].geometry) \/ WellFormed(features[i].geometry) )
    => /\ pc # "failed"
       /\ lastError = "none"
       /\ Len(countryData) = Len(features)
       /\ \A i \in 1..Len(features) :
              /\ countryData[i] = ProcessFeature(features[i], i - 1)
              /\ ZeroVertex(features[i].geometry) =>
                     /\ countryData[i].centroid = [lat |-> <<0, 1>>, lon |-> <<0, 1>>]
                     /\ countryData[i].bounds =
                            [minLat |-> 90, maxLat |-> -90, minLon |-> 180, maxLon |-> -180]
       /\ Loaded =>
              /\ bordersGroup[1].lines = CountryLines(WithVertices(countryData))
              /\ lookupCanvas[1] = CreateLookupTexture(WithVertices(countryData))

\* C26: however many times App.init is called, and whenever, each step of the
\* initialization sequence is performed at most once.
C26_InitSequenceAtMostOnce ==
    /\ sceneInits <= 1
    /\ globes <= 1
    /\ loadCalls <= 1
    /\ interactionSetups <= 1
    /\ loopStarts <= 1

\* C24: once every restore timer of the flights made so far has fired,
\* controls.autoRotate is what it was before the first flight, also when a
\* flight started while the timer of an earlier one was pending; the claim
\* is about flights, so that runs in which the setting was changed after the
\* first flight are left out.
C24_FlightsRestoreAutoRotate ==
    (flights > 0 /\ timers = <<>> /\ ~autoRotateSet) => autoRotate = autoRotateBefore

\* C25: at every notification of a listener of a countries.* path or of
\* 'countries', if the listener reads countries.loaded = true then
\* countries.data, byId and byName are those of the load that set it: the
\* complete feature set and the indices built from it.
C25_LoadedImpliesIndicesComplete ==
    \A k \in 1..Len(seen) :
        seen[k].loaded =>
            /\ seen[k].data = countryData
            /\ seen[k].byId = BuildById(countryData, <<>>)
            /\ seen[k].byName = BuildByName(countryData, <<>>)

\* C27: the scene never holds more than one 'borders' group, and the one it
\* holds is the group of the latest load, with the lines of its dataset.
C27_OneBordersGroupInScene ==
    /\ Len(sceneBorders) <= 1
    /\ \A k \in 1..Len(sceneBorders) :
           /\ bordersGroup # <<>>
           /\ sceneBorders[k] = bordersGroup[1].owner
           /\ sceneBorders[k] = publishedBy
           /\ bordersGroup[1].lines = MeshLines(countryData)

\* C29: in every state that clicks on the menu and settings buttons, clicks
\* elsewhere and the Escape, M and S keys lead to, also between the two
\* listeners of one click, the side panel and the settings panel are not
\* both open.
C29_PanelsNeverBothOpen == ~(panelOpen.side /\ panelOpen.settings)

\* M was pressed while the settings panel was open: the side panel is open
\* and the settings panel has been closed
C29_Witness ==
    /\ uiLog = <<[kind |-> "keydown", target |-> "m",
                  before |-> [side |-> FALSE, settings |-> TRUE]]>>
    /\ panelOpen = [side |-> TRUE, settings |-> FALSE]

\* the invocations of cb with (value, previous value, path) that the set d of
\* the last operation made
InvocationsFor(cb, d) ==
    Cardinality({i \in DOMAIN calls :
        /\ calls[i].cb = cb
        /\ calls[i].path = d.path
        /\ ~calls[i].oldNull
        /\ calls[i].old = d.old
        /\ calls[i].value = d.value})

\* a subscription whose unsubscribe function has not been called
Active(i) == ~subscriptions[i].unsubscribed

\* C30: every set(path, v) made while a subscription (path, cb) has not been
\* unsubscribed invokes cb exactly once with (v, previous value, path); once
\* the unsubscribe functions of cb's subscriptions have been called, no
\* set, update or resetQuiz invokes cb.
C30_SubscribedCallbackInvokedPerSet ==
    /\ \A i \in DOMAIN subscriptions : Active(i) =>
          \A k \in DOMAIN setsDone :
              setsDone[k].path = subscriptions[i].path =>
                  InvocationsFor(subscriptions[i].cb, setsDone[k]) = 1
    /\ \A i \in DOMAIN subscriptions :
          (/\ ~Active(i)
           /\ \A j \in DOMAIN subscriptions :
                  subscriptions[j].cb = subscriptions[i].cb => ~Active(j))
          => \A c \in DOMAIN calls : calls[c].cb # subscriptions[i].cb

\* C28: whenever getCountryAtUV reads the raster for a uv in [0, 1] x [0, 1],
\* the pixel coordinates it computes lie inside the raster:
\* 0 <= x < width and 0 <= y < height.
C28_PixelCoordinatesInsideRaster ==
    [][( /\ pc' = pc
         /\ picked' # picked
         /\ picked'.op = "getCountryAtUV"
         /\ lookupCanvas # <<>> )
       => /\ 0 <= PixelX(picked'.arg) /\ PixelX(picked'.arg) < size
          /\ 0 <= PixelY(picked'.arg) /\ PixelY(picked'.arg) < size]_vars

\* the rings of country c that are not ring 0 of their polygon
InnerRings(c) ==
    UNION {{c.geometry.polys[i][j] : j \in 2..Len(c.geometry.polys[i])} :
           i \in 1..Len(c.geometry.polys)}

\* pixel p lies entirely inside ring
PixelInside(ring, p) == Coverage(ring, p) = SubCount

\* no feature ingested after the i-th reaches pixel p
NoLaterAt(i, p) == \A j \in (i + 1)..Len(countryData) : ~FillTouches(countryData[j], p)

\* C23: after a load, for a feature f with an id in the valid range and a
\* pixel no later feature reaches: a pixel inside ring 0 of a polygon of f
\* holds f's colour and decodes to f's id also when it lies inside a hole
\* ring of f (holes are not subtracted), and a pixel that only a ring other
\* than ring 0 covers is left as the features before f painted it (such
\* rings are not filled), for Polygon and MultiPolygon alike.
C23_OnlyOuterRingFilled ==
    Loaded =>
        \A i \in 1..Len(countryData) : \A p \in Pixels :
            (IdInRange(countryData[i].id) /\ NoLaterAt(i, p)) =>
                /\ (\E hole \in InnerRings(countryData[i]) :
                        PixelInside(hole, p) /\ FillCovers(countryData[i], p))
                   => /\ lookupCanvas[1][p] = IdToColor(countryData[i].id)
                      /\ ColorToId(lookupCanvas[1][p][1], lookupCanvas[1][p][2],
                                   lookupCanvas[1][p][3]) = ToNumber(countryData[i].id)
                /\ ( /\ \E ring \in InnerRings(countryData[i]) : PixelInside(ring, p)
                     /\ ~FillTouches(countryData[i], p) )
                   => lookupCanvas[1][p] =
                          CreateLookupTexture(SubSeq(countryData, 1, i - 1))[p]

\* a polygon with a hole and a multipolygon whose second polygon has a hole
\* have been rasterised, and the pixel inside the hole holds colour 7
C23_Witness ==
    /\ Loaded
    /\ Len(countryData) = 1
    /\ countryData[1].geometry \in {GeomHoleA, GeomHoleMulti}
    /\ countryData[1].id = Id7
    /\ PixelInside(HoleRing, <<0, 0>>)
    /\ lookupCanvas[1][<<0, 0>>] = <<0, 0, 7>>
    /\ picked.op = "getCountryAtUV"
    /\ picked.pixel = <<0, 0, 7>>

====
